---- MODULE Spec2Model ----
(***************************************************************************)
(* Disaster impact assessment backend: the impact calculation service,     *)
(* the spatial analysis service and the tables they read and write.        *)
(*                                                                         *)
(* Geometry is modelled on a line of 1 km cells: a geometry is a finite    *)
(* set of cell coordinates, two geometries intersect when they share a     *)
(* cell, and a buffer of r km adds every cell within r km of the geometry. *)
(***************************************************************************)
EXTENDS Integers, Sequences, FiniteSets, TLC

VARIABLES
    \* ---- database tables (001_initial_schema.sql)
    disasters,            \* set of disasters rows
    census_blocks,        \* set of census_blocks rows
    infrastructure,       \* set of infrastructure rows
    impact_assessments,   \* set of impact_assessments rows
    alerts,               \* set of alerts rows
    assessmentSeq,        \* the SERIAL sequence of impact_assessments.id
    writes,               \* number of external writes to disasters so far
    \* ---- calculateFullImpact invocations
    pc,                   \* position of each invocation
    call,                 \* per invocation: argument, sub-results, outcome
    \* ---- estimateEconomicLoss called on its own
    lossIn,               \* its affectedPopulation argument
    lossOut,              \* what it returned
    \* ---- calculateAffectedPopulation called on its own
    popOut,               \* what it returned or threw
    \* ---- any other operation called on its own
    opIn,                 \* its arguments
    opOut,                \* what it returned or threw
    \* ---- the processes around the engine
    wss,                  \* WebSocketService: its sockets and its clients set
    pool,                 \* database.js: the run of the transaction helper
    mapView               \* MapContainer: requests in flight, disasters shown

dbVars   == <<disasters, census_blocks, infrastructure, impact_assessments,
             alerts, assessmentSeq, writes>>
callVars == <<pc, call>>
lossVars == <<lossIn, lossOut>>
popVars  == <<popOut>>
opVars   == <<opIn, opOut>>
edgeVars == <<wss, pool, mapView>>

\* Nothing runs around the engine.
NotRunning == [st |-> "none"]
ParkedEdge == wss = NotRunning /\ pool = NotRunning /\ mapView = NotRunning
vars     == <<dbVars, callVars, lossVars, popVars, opVars, edgeVars>>

-----------------------------------------------------------------------------
(* Values crossing the database driver and JavaScript.                     *)

\* SQL NULL / a JS number / a JS string of decimal digits / JS NaN.
NullV   == [t |-> "null", n |-> 0, s |-> <<>>]
NumV(n) == [t |-> "num",  n |-> n, s |-> <<>>]
StrV(s) == [t |-> "str",  n |-> 0, s |-> s]
NaNV    == [t |-> "nan",  n |-> 0, s |-> <<>>]

\* The decimal digits of a non-negative integer, as the driver renders a
\* bigint (SUM and COUNT over integer columns are bigint, which the driver
\* hands to JavaScript as a string).
RECURSIVE ToDigits(_)
ToDigits(n) == IF n < 10 THEN <<n>> ELSE Append(ToDigits(n \div 10), n % 10)

RECURSIVE DigitsValue(_)
DigitsValue(s) ==
    IF Len(s) = 0 THEN 0
    ELSE 10 * DigitsValue(SubSeq(s, 1, Len(s) - 1)) + s[Len(s)]

\* The "-" that leads the string of a negative bigint.
MinusSign == 0 - 1

SqlBigint(v) ==
    IF v < 0 THEN StrV(<<MinusSign>> \o ToDigits(0 - v)) ELSE StrV(ToDigits(v))

\* parseInt(v): a digit string parses to its value, signed if "-" leads it,
\* null and "" to NaN, a number to itself.
ParseInt(v) ==
    CASE v.t = "str" /\ Len(v.s) > 0 /\ v.s[1] # MinusSign -> NumV(DigitsValue(v.s))
      [] v.t = "str" /\ Len(v.s) > 1 /\ v.s[1] = MinusSign ->
            NumV(0 - DigitsValue(Tail(v.s)))
      [] v.t = "num"                 -> v
      [] OTHER                       -> NaNV

\* x || 0 for a number x: NaN and 0 are falsy.
OrZero(v) == IF v.t = "num" THEN v.n ELSE 0

\* Math.round(num / den), den > 0: the nearest integer, halves up.
MathRound(num, den) ==
    LET q == num \div den
        r == num % den
    IN  IF 2 * r >= den THEN q + 1 ELSE q

-----------------------------------------------------------------------------
(* Errors: the name of the error object thrown.                            *)

NoError       == "none"
NotFoundError == "Error: Disaster not found"
TypeErrorUndef == "TypeError: Cannot read properties of undefined"
FkViolation   == "DbError 23503: foreign key violation"
DbError(q)    == "DbError: " \o q

-----------------------------------------------------------------------------
(* estimateEconomicLoss (impactCalculation.js 99-150).                     *)
(* Multipliers are kept in tenths and areas (DECIMAL(10,2)) in hundredths; *)
(* amounts are then tenths of a dollar until Math.round.                   *)

SeverityLevels == {"minor", "moderate", "severe", "extreme"}
DisasterTypes  == {"wildfire", "earthquake", "flood", "hurricane", "tornado",
                   "severe_weather", "drought", "winter_storm"}
NullSeverity   == "NULL"

DefaultPerPersonLoss == 10000
AreaLossRate         == 500000

BasePerPersonLossNoDefault(severity) ==
    CASE severity = "minor"    -> 5000
      [] severity = "moderate" -> 15000
      [] severity = "severe"   -> 40000
      [] severity = "extreme"  -> 100000
      [] OTHER                 -> 0

\* basePerPersonLoss[severity] || 10000
BasePerPersonLoss(severity) ==
    CASE severity = "minor"    -> 5000
      [] severity = "moderate" -> 15000
      [] severity = "severe"   -> 40000
      [] severity = "extreme"  -> 100000
      [] OTHER                 -> DefaultPerPersonLoss

TypeMultiplier10Flat(type) == 10

\* typeMultipliers[type] || 1.0, in tenths
TypeMultiplier10(type) ==
    CASE type = "wildfire"       -> 15
      [] type = "earthquake"     -> 20
      [] type = "flood"          -> 12
      [] type = "hurricane"      -> 18
      [] type = "tornado"        -> 16
      [] type = "severe_weather" -> 8
      [] type = "drought"        -> 10
      [] type = "winter_storm"   -> 9
      [] OTHER                   -> 10

\* A nullable numeric column: NULL, or its value (a DECIMAL(10,2) is kept
\* in hundredths).
SqlNull   == [isNull |-> TRUE,  c |-> 0]
SqlInt(c) == [isNull |-> FALSE, c |-> c]
\* (area_sq_km || 0), in hundredths
AreaOrZero(a) == IF a.isNull THEN 0 ELSE a.c

\* Lines 136-145: Math.round(p * perPersonLoss * typeMultiplier + areaLoss)
LossFormula(type, severity, area, p) ==
    LET perPersonLoss   == BasePerPersonLoss(severity)
        typeMultiplier  == TypeMultiplier10(type)
        estimatedLoss10 == p * perPersonLoss * typeMultiplier
        areaLoss10      == AreaOrZero(area) * (AreaLossRate \div 10)
    IN  MathRound(estimatedLoss10 + areaLoss10, 10)

\* The whole function, given what its query did: lookup.st is "ok" with the
\* rows found, or "err" with the error the query raised.  The result is the
\* number returned and the error its catch block swallowed.
EstimateEconomicLoss(lookup, p) ==
    IF lookup.st = "err"
      THEN [value |-> 0, caught |-> lookup.err]
    ELSE IF lookup.rows = {}
      THEN [value |-> 0, caught |-> NotFoundError]
    ELSE LET d == CHOOSE r \in lookup.rows : TRUE
         IN  [value  |-> LossFormula(d.type, d.severity, d.area_sq_km, p),
              caught |-> NoError]

-----------------------------------------------------------------------------
(* The spatial primitives the queries use.                                 *)

Abs(x) == IF x < 0 THEN 0 - x ELSE x

\* ST_Intersects: the geometries share at least one point.
ST_Intersects(a, b) == a \cap b # {}

\* ST_DWithin(point::geography, geometry::geography, meters), in km.
ST_DWithin(p, g, km) == \E q \in g : Abs(p - q) <= km

ST_BufferRing(g, km) == UNION {(q - km)..(q + km) : q \in g} \ g

\* ST_Buffer(geometry::geography, meters), in km.
ST_Buffer(g, km) == UNION {(q - km)..(q + km) : q \in g}

\* ST_Area(...) / 1000000: square kilometres, one per cell.
ST_Area(g) == Cardinality(g)

RECURSIVE SetSum(_)
SetSum(S) == IF S = {} THEN 0
             ELSE LET x == CHOOSE y \in S : TRUE IN x + SetSum(S \ {x})

\* ST_Centroid: the mean of the geometry's points, as a fraction.
ST_Centroid(g) == [num |-> SetSum(g), den |-> Cardinality(g)]

\* ST_Distance(point::geography, centroid::geography) / 1000, as a fraction.
ST_Distance(p, c) == [num |-> Abs(p * c.den - c.num), den |-> c.den]

\* a <= b for fractions with positive denominators
FracLeq(a, b) == a.num * b.den <= b.num * a.den

\* A centroid column the writer left out of the statement (NULL on INSERT).
OmittedCentroid == [num |-> 0, den |-> 0]

UpdateDisasterCentroidWhenOmitted(new) ==
    IF new.centroid = OmittedCentroid
      THEN [new EXCEPT !.centroid = ST_Centroid(new.geometry)]
      ELSE new

\* update_disaster_centroid (schema 164-176): BEFORE INSERT OR UPDATE
UpdateDisasterCentroid(new) == [new EXCEPT !.centroid = ST_Centroid(new.geometry)]

\* disaster_id INTEGER REFERENCES disasters(id): the column is nullable
\* (schema 103, 131); SERIAL ids start at 1, so 0 stands for NULL.
NoDisasterId == 0

RemainingAlertsKept(rows, d) == rows

\* ON DELETE CASCADE (schema 103, 131): the rows left once disaster d is gone.
RemainingAssessments(rows, d) == {r \in rows : r.assessment.disaster_id # d}
RemainingAlerts(rows, d)      == {a \in rows : a.disaster_id # d}

DisasterRows(disasterId) == {d \in disasters : d.id = disasterId}

-----------------------------------------------------------------------------
(* calculateAffectedPopulation (spatialAnalysis.js 15-36).                 *)

RECURSIVE ColumnTotal(_, _)
ColumnTotal(rows, col) ==
    IF rows = {} THEN 0
    ELSE LET r == CHOOSE x \in rows : TRUE
         IN  r[col].c + ColumnTotal(rows \ {r}, col)

\* SUM(col): NULLs are skipped; no non-NULL value at all gives NULL; the
\* bigint result reaches JavaScript as a string.
SqlSum(rows, col) ==
    LET present == {r \in rows : ~r[col].isNull}
    IN  IF present = {} THEN NullV ELSE SqlBigint(ColumnTotal(present, col))

\* COUNT(cb.id): a bigint, never NULL.
SqlCount(rows) == StrV(ToDigits(Cardinality(rows)))

JoinedBlocksContained(blocks, ds) ==
    {cb \in blocks : \E d \in ds : cb.geometry \subseteq d.geometry}

\* FROM census_blocks cb INNER JOIN disasters d ON d.id = $1
\* WHERE ST_Intersects(cb.geometry, d.geometry)
JoinedBlocks(blocks, ds) ==
    {cb \in blocks : \E d \in ds : ST_Intersects(cb.geometry, d.geometry)}

\* result.rows[0]: an aggregate without GROUP BY always yields one row.
AffectedPopulationRow(blocks, ds) ==
    LET joined == JoinedBlocks(blocks, ds)
    IN  [total_population       |-> SqlSum(joined, "population"),
         total_households       |-> SqlSum(joined, "households"),
         elderly_population     |-> SqlSum(joined, "elderly_population"),
         children_population    |-> SqlSum(joined, "children_population"),
         disabled_population    |-> SqlSum(joined, "disabled_population"),
         affected_census_blocks |-> SqlCount(joined)]

\* getDisasterImpactSummary 274-283: parseInt(x) || 0 on every field
SummaryPopulation(row) ==
    [total      |-> OrZero(ParseInt(row.total_population)),
     households |-> OrZero(ParseInt(row.total_households)),
     vulnerable |-> [elderly  |-> OrZero(ParseInt(row.elderly_population)),
                     children |-> OrZero(ParseInt(row.children_population)),
                     disabled |-> OrZero(ParseInt(row.disabled_population))],
     affected_census_blocks |-> OrZero(ParseInt(row.affected_census_blocks))]

-----------------------------------------------------------------------------
(* findAffectedInfrastructure (spatialAnalysis.js 44-74).                  *)

InfrastructureRow(i, d) ==
    [id |-> i.id, type |-> i.type, operational_status |-> i.operational_status,
     location |-> i.location, distance_km |-> ST_Distance(i.location, d.centroid)]

AffectedInfrastructureSet(sites, ds, bufferKm) ==
    {InfrastructureRow(i, d) : i \in {s \in sites : \E x \in ds :
                                       ST_DWithin(s.location, x.geometry, bufferKm)},
                               d \in ds}

\* ORDER BY distance_km ASC: every ordering of the matching rows that is
\* ascending by distance (rows at the same distance come in any order).
AffectedInfrastructureOrders(sites, ds, bufferKm) ==
    LET rows == AffectedInfrastructureSet(sites, ds, bufferKm)
        n    == Cardinality(rows)
    IN  {s \in [1..n -> rows] :
            /\ \A j, k \in 1..n : j # k => s[j] # s[k]
            /\ \A j \in 1..(n - 1) : FracLeq(s[j].distance_km, s[j + 1].distance_km)}

-----------------------------------------------------------------------------
(* createEvacuationZones (spatialAnalysis.js 81-101).                      *)

NoZones == [found |-> FALSE, zone_1km |-> {}, zone_5km |-> {}, zone_10km |-> {},
            area_1km_sq_km |-> 0, area_5km_sq_km |-> 0, area_10km_sq_km |-> 0]

ZonesOf(d) ==
    [found |-> TRUE,
     zone_1km  |-> ST_Buffer(d.geometry, 1),
     zone_5km  |-> ST_Buffer(d.geometry, 5),
     zone_10km |-> ST_Buffer(d.geometry, 10),
     area_1km_sq_km  |-> ST_Area(ST_Buffer(d.geometry, 1)),
     area_5km_sq_km  |-> ST_Area(ST_Buffer(d.geometry, 5)),
     area_10km_sq_km |-> ST_Area(ST_Buffer(d.geometry, 10))]

\* result.rows[0]: undefined (found = FALSE) when no disasters row matches.
EvacuationZonesRow(ds) ==
    IF ds = {} THEN NoZones ELSE ZonesOf(CHOOSE d \in ds : TRUE)

-----------------------------------------------------------------------------
(* getDisasterImpactSummary (spatialAnalysis.js 259-296).                  *)

\* infrastructure.reduce(...): the number of rows of each type that occurs
InfrastructureByType(rows) ==
    [t \in {rows[k].type : k \in DOMAIN rows} |->
        Cardinality({k \in DOMAIN rows : rows[k].type = t})]

DetailsLimit == 10

InfrastructureDetailsUncut(rows) == rows

\* infrastructure.slice(0, 10)
InfrastructureDetails(rows) ==
    SubSeq(rows, 1, IF Len(rows) < DetailsLimit THEN Len(rows) ELSE DetailsLimit)

ImpactSummary(c) ==
    [population       |-> SummaryPopulation(c.population.row),
     infrastructure   |-> [total   |-> Len(c.infrastructure.rows),
                           by_type |-> InfrastructureByType(c.infrastructure.rows),
                           details |-> InfrastructureDetails(c.infrastructure.rows)],
     evacuation_zones |-> c.zones.row]

FirstResolved(c) == c.population.st = "ok"

\* Promise.all([...]) resolves once all three promises have resolved
AllResolved(c) ==
    /\ c.population.st = "ok"
    /\ c.infrastructure.st = "ok"
    /\ c.zones.st = "ok"

-----------------------------------------------------------------------------
(* calculateFullImpact (impactCalculation.js 16-91): the assessment.       *)

\* by_type.hospital || 0
CountOfTypeOrOne(byType, t) == IF t \in DOMAIN byType THEN byType[t] ELSE 1

CountOfType(byType, t) == IF t \in DOMAIN byType THEN byType[t] ELSE 0

\* Lines 28-41.  Only evaluated when evacuation_zones is defined.
Assessment(disasterId, summary, economicLoss) ==
    [disaster_id             |-> disasterId,
     affected_population     |-> summary.population.total,
     affected_households     |-> summary.population.households,
     vulnerable_population   |-> summary.population.vulnerable.elderly
                                 + summary.population.vulnerable.children
                                 + summary.population.vulnerable.disabled,
     affected_hospitals      |-> CountOfType(summary.infrastructure.by_type, "hospital"),
     affected_shelters       |-> CountOfType(summary.infrastructure.by_type,
                                             "emergency_shelter"),
     affected_critical_infrastructure |-> summary.infrastructure.total,
     estimated_economic_loss |-> economicLoss,
     affected_area_sq_km     |-> summary.evacuation_zones.area_10km_sq_km]

NoAssessment ==
    [disaster_id |-> 0, affected_population |-> 0, affected_households |-> 0,
     vulnerable_population |-> 0, affected_hospitals |-> 0, affected_shelters |-> 0,
     affected_critical_infrastructure |-> 0, estimated_economic_loss |-> 0,
     affected_area_sq_km |-> 0]

\* The row the INSERT of lines 44-78 adds, with the id the sequence gave it.
AssessmentRow(id, a, zones) ==
    [id |-> id, assessment |-> a,
     evacuation_zone_1km  |-> zones.zone_1km,
     evacuation_zone_5km  |-> zones.zone_5km,
     evacuation_zone_10km |-> zones.zone_10km]

-----------------------------------------------------------------------------
(* The state of the tables and of the invocations.                         *)

MaxWrites == 1

\* Two invocations: any two of them may overlap at every step.
Invocations == {1, 2}
DisasterIds == {1, 2}       \* 2 is an identifier no row ever has

QueryNames == {"population", "infrastructure", "zones", "lookup", "insert"}

\* INSERT INTO disasters: the BEFORE INSERT trigger sets the centroid.
DisasterRow(id, type, severity, area, geometry) ==
    UpdateDisasterCentroid(
        [id |-> id, type |-> type, severity |-> severity,
         area_sq_km |-> area, geometry |-> geometry,
         centroid |-> ST_Centroid({}), updated_at |-> 0])

InitialDisaster == DisasterRow(1, "earthquake", "severe", SqlNull, {20})

\* What an external writer (ingestion) may set on a disasters row.
UpdateChoices ==
    {[geometry |-> {20, 21}, severity |-> "extreme",    area_sq_km |-> SqlInt(250)],
     [geometry |-> {40},     severity |-> NullSeverity, area_sq_km |-> SqlNull]}

Block(id, g, pop, hh, eld, chi, dis) ==
    [id |-> id, geometry |-> g, population |-> SqlInt(pop), households |-> hh,
     elderly_population |-> eld, children_population |-> chi,
     disabled_population |-> dis]

LoadedCensus ==
    {Block(1, 18..20, 30, SqlInt(10), SqlInt(5), SqlNull,   SqlInt(2)),
     Block(2, 21..25, 12, SqlInt(4),  SqlInt(1), SqlInt(3), SqlNull)}

LoadedInfrastructure ==
    {[id |-> 1, type |-> "hospital",          location |-> 22, operational_status |-> TRUE],
     [id |-> 2, type |-> "emergency_shelter", location |-> 26, operational_status |-> FALSE],
     [id |-> 3, type |-> "school",            location |-> 60, operational_status |-> TRUE]}

\* updated_at of "no row read": below every real updated_at
NotRead == 0 - 1

IdleCall ==
    [did            |-> 0,
     population     |-> [st |-> "idle", row |-> AffectedPopulationRow({}, {}),
                         seen |-> NotRead],
     infrastructure |-> [st |-> "idle", rows |-> <<>>, seen |-> NotRead],
     zones          |-> [st |-> "idle", row |-> NoZones, seen |-> NotRead],
     loss           |-> [st |-> "idle", value |-> 0, caught |-> NoError,
                         seen |-> NotRead],
     assessment     |-> NoAssessment,
     assessment_id  |-> 0,
     error          |-> NoError,
     queries        |-> [q \in QueryNames |-> 0],
     raised         |-> [q \in QueryNames |-> NoError],
     inserted       |-> 0]

\* updated_at of the row a query read, NotRead when it found none
SeenOf(ds) == IF ds = {} THEN NotRead ELSE (CHOOSE d \in ds : TRUE).updated_at

\* No stand-alone call: no arguments, no response.
NoArguments == [op |-> "none"]
IdleOut     == [st |-> "idle", op |-> "none"]

IdleLoss == [st |-> "idle", value |-> 0, caught |-> NoError, raised |-> NoError]
IdlePop  == [st |-> "idle", row |-> AffectedPopulationRow({}, {}),
             section |-> SummaryPopulation(AffectedPopulationRow({}, {})),
             error |-> NoError, raised |-> NoError]

ParkedLoss  == lossIn = 0 /\ lossOut = IdleLoss
ParkedPop   == popOut = IdlePop
ParkedOp    == opIn = NoArguments /\ opOut = IdleOut
ParkedCalls == /\ pc = [i \in Invocations |-> "idle"]
               /\ call = [i \in Invocations |-> IdleCall]

Init ==
    /\ disasters = {InitialDisaster}
    /\ census_blocks = LoadedCensus
    /\ infrastructure = LoadedInfrastructure
    /\ impact_assessments = {}
    /\ alerts = {}
    /\ assessmentSeq = 0
    /\ writes = 0
    /\ ParkedCalls
    /\ ParkedLoss
    /\ ParkedPop
    /\ ParkedEdge
    /\ ParkedOp

-----------------------------------------------------------------------------
(* calculateFullImpact, step by step.  Every db.query (database.js 23-34)  *)
(* is one read or write of the tables; it either returns or throws, and    *)
(* the code that awaits it runs on in the same step.                       *)

\* Lines 16-19 with spatialAnalysis.js 259-265: the three queries are issued
\* together.
Started(d) ==
    [IdleCall EXCEPT !.did = d,
                     !.population.st = "pending",
                     !.infrastructure.st = "pending",
                     !.zones.st = "pending",
                     !.queries = [q \in QueryNames |->
                        IF q \in {"population", "infrastructure", "zones"}
                        THEN 1 ELSE 0]]

\* A caller of the service (a job, a controller without a check).
CallFullImpact(i, d) ==
    /\ pc[i] = "idle"
    /\ \A j \in Invocations : j < i => pc[j] # "idle"
    /\ pc' = [pc EXCEPT ![i] = "summary"]
    /\ call' = [call EXCEPT ![i] = Started(d)]
    /\ UNCHANGED <<opVars, dbVars, lossVars, popVars, edgeVars>>

\* ImpactController.calculateImpact (part_001 72-100): the existence check,
\* then the service call.
CalculateImpact(i, d) ==
    /\ pc[i] = "idle"
    /\ \A j \in Invocations : j < i => pc[j] # "idle"
    /\ IF DisasterRows(d) = {}
         THEN /\ pc' = [pc EXCEPT ![i] = "http404"]
              /\ call' = [call EXCEPT ![i].did = d]
         ELSE /\ pc' = [pc EXCEPT ![i] = "summary"]
              /\ call' = [call EXCEPT ![i] = Started(d)]
    /\ UNCHANGED <<opVars, dbVars, lossVars, popVars, edgeVars>>

\* One of the three promises resolved, leaving the invocation's record c:
\* when Promise.all resolves, line 22 calls estimateEconomicLoss, which
\* issues its lookup (line 108).  After a rejection nothing reads c.
Resolved(i, c) ==
    IF pc[i] = "summary" /\ AllResolved(c)
    THEN /\ pc' = [pc EXCEPT ![i] = "loss"]
         /\ call' = [call EXCEPT ![i] =
                [c EXCEPT !.loss.st = "pending",
                          !.queries["lookup"] = @ + 1]]
    ELSE /\ pc' = pc
         /\ call' = [call EXCEPT ![i] = c]

\* One of the three promises rejected with err: Promise.all rejects with the
\* first rejection, getDisasterImpactSummary and calculateFullImpact rethrow it.
Rejected(i, c, err) ==
    IF pc[i] = "summary"
    THEN /\ pc' = [pc EXCEPT ![i] = "threw"]
         /\ call' = [call EXCEPT ![i] = [c EXCEPT !.error = err]]
    ELSE /\ pc' = pc
         /\ call' = [call EXCEPT ![i] = c]

PopulationQueryOk(i) ==
    /\ call[i].population.st = "pending"
    /\ LET ds == DisasterRows(call[i].did)
           c  == [call[i] EXCEPT !.population =
                    IF pc[i] = "summary"
                    THEN [st |-> "ok", seen |-> SeenOf(ds),
                          row |-> AffectedPopulationRow(census_blocks, ds)]
                    ELSE [@ EXCEPT !.st = "ok"]]
       IN  Resolved(i, c)
    /\ UNCHANGED <<opVars, dbVars, lossVars, popVars, edgeVars>>

PopulationQueryFail(i) ==
    /\ call[i].population.st = "pending"
    /\ LET err == DbError("population")
           c   == [call[i] EXCEPT !.population.st = "err",
                                  !.raised["population"] = err]
       IN  Rejected(i, c, err)
    /\ UNCHANGED <<opVars, dbVars, lossVars, popVars, edgeVars>>

InfrastructureQueryOk(i) ==
    /\ call[i].infrastructure.st = "pending"
    /\ LET ds == DisasterRows(call[i].did)
       IN  \E rows \in AffectedInfrastructureOrders(infrastructure, ds, 10) :
             Resolved(i, [call[i] EXCEPT !.infrastructure =
                    IF pc[i] = "summary"
                    THEN [st |-> "ok", seen |-> SeenOf(ds), rows |-> rows]
                    ELSE [@ EXCEPT !.st = "ok"]])
    /\ UNCHANGED <<opVars, dbVars, lossVars, popVars, edgeVars>>

InfrastructureQueryFail(i) ==
    /\ call[i].infrastructure.st = "pending"
    /\ LET err == DbError("infrastructure")
           c   == [call[i] EXCEPT !.infrastructure.st = "err",
                                  !.raised["infrastructure"] = err]
       IN  Rejected(i, c, err)
    /\ UNCHANGED <<opVars, dbVars, lossVars, popVars, edgeVars>>

ZonesQueryOk(i) ==
    /\ call[i].zones.st = "pending"
    /\ LET ds == DisasterRows(call[i].did)
           c  == [call[i] EXCEPT !.zones =
                    IF pc[i] = "summary"
                    THEN [st |-> "ok", seen |-> SeenOf(ds),
                          row |-> EvacuationZonesRow(ds)]
                    ELSE [@ EXCEPT !.st = "ok"]]
       IN  Resolved(i, c)
    /\ UNCHANGED <<opVars, dbVars, lossVars, popVars, edgeVars>>

ZonesQueryFail(i) ==
    /\ call[i].zones.st = "pending"
    /\ LET err == DbError("zones")
           c   == [call[i] EXCEPT !.zones.st = "err",
                                  !.raised["zones"] = err]
       IN  Rejected(i, c, err)
    /\ UNCHANGED <<opVars, dbVars, lossVars, popVars, edgeVars>>

\* estimateEconomicLoss returned r (lines 22-25); lines 27-78 build the
\* assessment and issue the INSERT.  Reading area_10km_sq_km of an undefined
\* evacuation_zones throws a TypeError, which line 89 rethrows.
LossReturned(i, c, r) ==
    LET summary == ImpactSummary(c)
        c1 == [c EXCEPT !.loss.st = "ok", !.loss.value = r.value,
                        !.loss.caught = r.caught]
    IN  IF ~summary.evacuation_zones.found
        THEN /\ pc' = [pc EXCEPT ![i] = "threw"]
             /\ call' = [call EXCEPT ![i] = [c1 EXCEPT !.error = TypeErrorUndef]]
        ELSE /\ pc' = [pc EXCEPT ![i] = "insert"]
             /\ call' = [call EXCEPT ![i] =
                    [c1 EXCEPT !.assessment = Assessment(c.did, summary, r.value),
                               !.queries["insert"] = @ + 1]]

LookupQueryOk(i) ==
    /\ pc[i] = "loss"
    /\ LET ds == DisasterRows(call[i].did)
           p  == ImpactSummary(call[i]).population.total
           r  == EstimateEconomicLoss([st |-> "ok", rows |-> ds, err |-> NoError], p)
       IN  LossReturned(i, [call[i] EXCEPT !.loss.seen = SeenOf(ds)], r)
    /\ UNCHANGED <<opVars, dbVars, lossVars, popVars, edgeVars>>

LookupQueryFail(i) ==
    /\ pc[i] = "loss"
    /\ LET err == DbError("lookup")
           p   == ImpactSummary(call[i]).population.total
           r   == EstimateEconomicLoss([st |-> "err", rows |-> {}, err |-> err], p)
       IN  LossReturned(i, [call[i] EXCEPT !.raised["lookup"] = err], r)
    /\ UNCHANGED <<opVars, dbVars, lossVars, popVars, edgeVars>>

InsertedTwice(rows, id, c) ==
    rows \cup {AssessmentRow(id, c.assessment, c.zones.row),
               AssessmentRow(id + 1, c.assessment, c.zones.row)}

\* INSERT INTO impact_assessments ... RETURNING id
Inserted(rows, id, c) ==
    rows \cup {AssessmentRow(id, c.assessment, c.zones.row)}

\* The INSERT runs: disaster_id REFERENCES disasters(id) (schema 103) rejects
\* a row for a disaster that is gone; otherwise the row is added and lines
\* 80-86 return the assessment.
InsertQueryOk(i) ==
    /\ pc[i] = "insert"
    /\ assessmentSeq' = assessmentSeq + 1
    /\ IF DisasterRows(call[i].did) = {}
         THEN /\ pc' = [pc EXCEPT ![i] = "threw"]
              /\ call' = [call EXCEPT ![i].error = FkViolation,
                                      ![i].raised["insert"] = FkViolation]
              /\ UNCHANGED impact_assessments
         ELSE /\ pc' = [pc EXCEPT ![i] = "returned"]
              /\ impact_assessments' =
                    Inserted(impact_assessments, assessmentSeq', call[i])
              /\ call' = [call EXCEPT
                    ![i].assessment_id = assessmentSeq',
                    ![i].inserted = Cardinality(impact_assessments')
                                    - Cardinality(impact_assessments)]
    /\ UNCHANGED <<opVars, disasters, census_blocks, infrastructure, alerts, writes,
                   lossVars, popVars, edgeVars>>

InsertQueryFail(i) ==
    /\ pc[i] = "insert"
    /\ pc' = [pc EXCEPT ![i] = "threw"]
    /\ call' = [call EXCEPT ![i].error = DbError("insert"),
                            ![i].raised["insert"] = DbError("insert")]
    /\ UNCHANGED <<opVars, dbVars, lossVars, popVars, edgeVars>>

-----------------------------------------------------------------------------
(* Writers outside the service (ingestion) and the schema's rules.         *)

\* UPDATE disasters: the BEFORE UPDATE triggers recompute the centroid and
\* set updated_at (schema 164-176, 194-205).
UpdateDisaster(d, ch) ==
    /\ writes < MaxWrites
    /\ \E old \in DisasterRows(d) :
          /\ ch.geometry # old.geometry
          /\ disasters' = (disasters \ {old}) \cup
                {UpdateDisasterCentroid(
                    [old EXCEPT !.geometry = ch.geometry,
                                !.severity = ch.severity,
                                !.area_sq_km = ch.area_sq_km,
                                !.updated_at = writes + 1])}
    /\ writes' = writes + 1
    /\ UNCHANGED <<opVars, census_blocks, infrastructure, impact_assessments, alerts,
                   assessmentSeq,
                   callVars, lossVars, popVars, edgeVars>>

\* DELETE FROM disasters: ON DELETE CASCADE removes its assessments and its
\* alerts (schema 103, 131).
DeleteDisaster(d) ==
    /\ writes < MaxWrites
    /\ DisasterRows(d) # {}
    /\ disasters' = disasters \ DisasterRows(d)
    /\ impact_assessments' = RemainingAssessments(impact_assessments, d)
    /\ alerts' = RemainingAlerts(alerts, d)
    /\ writes' = writes + 1
    /\ UNCHANGED <<opVars, census_blocks, infrastructure, assessmentSeq,
                   callVars, lossVars, popVars, edgeVars>>

Next ==
    \/ \E i \in Invocations, d \in DisasterIds : CallFullImpact(i, d)
    \/ \E i \in Invocations, d \in DisasterIds : CalculateImpact(i, d)
    \/ \E i \in Invocations : PopulationQueryOk(i)
    \/ \E i \in Invocations : PopulationQueryFail(i)
    \/ \E i \in Invocations : InfrastructureQueryOk(i)
    \/ \E i \in Invocations : InfrastructureQueryFail(i)
    \/ \E i \in Invocations : ZonesQueryOk(i)
    \/ \E i \in Invocations : ZonesQueryFail(i)
    \/ \E i \in Invocations : LookupQueryOk(i)
    \/ \E i \in Invocations : LookupQueryFail(i)
    \/ \E i \in Invocations : InsertQueryOk(i)
    \/ \E i \in Invocations : InsertQueryFail(i)
    \/ \E d \in DisasterIds, ch \in UpdateChoices : UpdateDisaster(d, ch)
    \/ \E d \in DisasterIds : DeleteDisaster(d)

Spec == Init /\ [][Next]_vars

-----------------------------------------------------------------------------
(* estimateEconomicLoss(1, p) called on its own, over every kind of        *)
(* disasters row it can find.                                              *)

\* "landslide": a disaster_type the multiplier table of lines 125-134 does
\* not list (the enum grows by migration, the table by hand).
LossTypes       == DisasterTypes \cup {"landslide"}
LossSeverities  == SeverityLevels \cup {NullSeverity}
LossAreas       == {SqlNull, SqlInt(0), SqlInt(1), SqlInt(250)}
LossPopulations == {0, 1, 7, 1000}

InitLoss ==
    /\ \/ disasters = {}
       \/ \E t \in LossTypes, s \in LossSeverities, a \in LossAreas :
             disasters = {DisasterRow(1, t, s, a, {20})}
    /\ census_blocks = {}
    /\ infrastructure = {}
    /\ impact_assessments = {}
    /\ alerts = {}
    /\ assessmentSeq = 0
    /\ writes = 0
    /\ ParkedCalls
    /\ lossIn \in LossPopulations
    /\ lossOut = IdleLoss
    /\ ParkedPop
    /\ ParkedEdge
    /\ ParkedOp

EstimateEconomicLossOk ==
    /\ lossOut.st = "idle"
    /\ LET r == EstimateEconomicLoss(
                   [st |-> "ok", rows |-> DisasterRows(1), err |-> NoError], lossIn)
       IN  lossOut' = [st |-> "ok", value |-> r.value, caught |-> r.caught,
                       raised |-> NoError]
    /\ UNCHANGED <<opVars, dbVars, callVars, lossIn, popVars, edgeVars>>

EstimateEconomicLossQueryFail ==
    /\ lossOut.st = "idle"
    /\ LET err == DbError("lookup")
           r   == EstimateEconomicLoss([st |-> "err", rows |-> {}, err |-> err], lossIn)
       IN  lossOut' = [st |-> "ok", value |-> r.value, caught |-> r.caught,
                       raised |-> err]
    /\ UNCHANGED <<opVars, dbVars, callVars, lossIn, popVars, edgeVars>>

NextLoss == EstimateEconomicLossOk \/ EstimateEconomicLossQueryFail

SpecLoss == InitLoss /\ [][NextLoss]_vars

-----------------------------------------------------------------------------
(* calculateAffectedPopulation(1) called on its own (the population        *)
(* endpoint, part_001 10-24), over sets of census blocks and geometries.   *)

BlockPool ==
    {Block(1, 10..20, 12000, SqlInt(4000), SqlInt(1500), SqlInt(2500), SqlInt(600)),
     Block(2, 22..30, 800,   SqlNull,      SqlInt(90),   SqlNull,      SqlInt(40)),
     Block(3, 40..45, 50,    SqlInt(20),   SqlNull,      SqlNull,      SqlInt(0)),
     Block(4, 5..12,  0,     SqlInt(0),    SqlInt(0),    SqlInt(0),    SqlNull)}

PopGeometries == {20..25, {20}, {21}, {35}, 0..50, {26, 41}, 11..12}

InitPop ==
    /\ \/ disasters = {}
       \/ \E g \in PopGeometries :
             disasters = {DisasterRow(1, "wildfire", "moderate", SqlNull, g)}
    /\ census_blocks \in SUBSET BlockPool
    /\ infrastructure = {}
    /\ impact_assessments = {}
    /\ alerts = {}
    /\ assessmentSeq = 0
    /\ writes = 0
    /\ ParkedCalls
    /\ ParkedLoss
    /\ popOut = IdlePop
    /\ ParkedOp
    /\ ParkedEdge

CalculateAffectedPopulationOk ==
    /\ popOut.st = "idle"
    /\ LET row == AffectedPopulationRow(census_blocks, DisasterRows(1))
       IN  popOut' = [IdlePop EXCEPT !.st = "ok", !.row = row,
                                     !.section = SummaryPopulation(row)]
    /\ UNCHANGED <<opVars, dbVars, callVars, lossVars, edgeVars>>

CalculateAffectedPopulationFail ==
    /\ popOut.st = "idle"
    /\ popOut' = [IdlePop EXCEPT !.st = "err", !.raised = DbError("population"),
                                 !.error = DbError("population")]
    /\ UNCHANGED <<opVars, dbVars, callVars, lossVars, edgeVars>>

NextPop == CalculateAffectedPopulationOk \/ CalculateAffectedPopulationFail

SpecPop == InitPop /\ [][NextPop]_vars

-----------------------------------------------------------------------------
(* Proximity search: findNearestInfrastructure and findAffectedInfrastructure *)
(* over one infrastructure table.  Locations are points of a local grid:    *)
(* x is the offset east and y the offset north of the query point, both in  *)
(* tenths of a kilometre.                                                   *)

Pt(x, y) == [x |-> x, y |-> y]
Sq(v) == v * v
Frac(n, d) == [num |-> n, den |-> d]
TenthsPerKm == 10

\* How many times longer a degree of latitude is than a degree of longitude:
\* once at the equator, twice at 60 degrees north.
LatitudeBands == {"equator", "60N"}
LngStretch(band) == IF band = "60N" THEN 2 ELSE 1

\* ST_Distance(a::geography, b::geography) / 1000: the distance over the
\* ground.  Distances are carried as their squares, in tenths of a km.
GeogDistance2(a, b) == Frac(Sq(a.x - b.x) + Sq(a.y - b.y), 1)

\* location <-> point on GEOMETRY(Point, 4326): the Euclidean distance
\* between the longitude/latitude pairs, in degrees.
KnnDistance2(a, b, band) == Sq(LngStretch(band) * (a.x - b.x)) + Sq(a.y - b.y)

\* ST_Centroid of a set of points: their mean, over a common denominator.
RECURSIVE CoordSum(_, _)
CoordSum(g, axis) ==
    IF g = {} THEN 0
    ELSE LET q == CHOOSE r \in g : TRUE IN q[axis] + CoordSum(g \ {q}, axis)

Centroid2(g) == [x |-> CoordSum(g, "x"), y |-> CoordSum(g, "y"),
                 den |-> Cardinality(g)]

\* ST_Distance(location::geography, centroid::geography) / 1000
CentroidDistance2(a, c) ==
    Frac(Sq(a.x * c.den - c.x) + Sq(a.y * c.den - c.y), Sq(c.den))

\* ST_DWithin(location::geography, geometry::geography, $2 * 1000)
DWithin2(a, g, km) ==
    \E q \in g : GeogDistance2(a, q).num <= Sq(km * TenthsPerKm)

\* A disasters row of the grid; the BEFORE INSERT trigger sets the centroid.
GridDisaster(id, g) == [id |-> id, geometry |-> g, centroid |-> Centroid2(g)]

Site(id, type, x, y) ==
    [id |-> id, type |-> type, location |-> Pt(x, y), operational_status |-> TRUE]


\* infrastructure_type (schema 24-34)
InfrastructureTypes ==
    {"hospital", "emergency_shelter", "fire_station", "police_station",
     "power_station", "water_treatment", "school", "airport", "bridge"}

\* The type argument: a string, or undefined (bound as NULL by the driver).
TypeArg(v) == [given |-> TRUE, v |-> v]
NoTypeArg  == [given |-> FALSE, v |-> ""]

\* PostgreSQL refuses a string that is no label of the enum with SQLSTATE
\* 22P02.
InvalidEnumInput == "DbError 22P02: invalid input value for enum"

\* errorHandler (part_004 15-38 and its default): the HTTP status of an error
\* passed to next().
ErrorStatus(err) == IF err \in {InvalidEnumInput, FkViolation} THEN 400 ELSE 500

NearestEligibleAnyStatus(sites, type) ==
    {s \in sites : type.given /\ s.type = type.v}

\* WHERE type = $3 AND operational_status = true; type = NULL matches no row.
NearestEligible(sites, type) ==
    {s \in sites : type.given /\ s.type = type.v /\ s.operational_status = TRUE}

\* The SELECT list of findNearestInfrastructure (187-198).
NearestRow(s, p) ==
    [id |-> s.id, type |-> s.type, operational_status |-> s.operational_status,
     location |-> s.location, distance_km |-> GeogDistance2(s.location, p)]

\* ORDER BY location <-> point: every ordering ascending by the planar
\* distance (sites at the same planar distance come in any order).
RECURSIVE KnnOrders(_, _, _)
KnnOrders(sites, p, band) ==
    IF sites = {} THEN {<<>>}
    ELSE UNION {{<<NearestRow(s, p)>> \o t : t \in KnnOrders(sites \ {s}, p, band)} :
                s \in {m \in sites : \A o \in sites :
                          KnnDistance2(m.location, p, band)
                             <= KnnDistance2(o.location, p, band)}}

Min(a, b) == IF a <= b THEN a ELSE b

\* ... LIMIT $4
NearestResults(sites, p, type, limit, band) ==
    {SubSeq(o, 1, Min(limit, Len(o))) :
        o \in KnnOrders(NearestEligible(sites, type), p, band)}

\* findNearestInfrastructure (185-217): the rows, or the error the query
\* raised, rethrown.
FindNearestInfrastructureOutcomes(sites, p, type, limit, band) ==
    IF type.given /\ type.v \notin InfrastructureTypes
    THEN {[st |-> "err", rows |-> <<>>, error |-> InvalidEnumInput]}
    ELSE {[st |-> "ok", rows |-> r, error |-> NoError] :
             r \in NearestResults(sites, p, type, limit, band)}

\* The SELECT list of findAffectedInfrastructure (46-56) on the grid.
GridAffectedRow(s, d) ==
    [id |-> s.id, type |-> s.type, operational_status |-> s.operational_status,
     location |-> s.location,
     distance_km |-> CentroidDistance2(s.location, d.centroid)]

GridAffectedSetByCentroid(sites, d, km) ==
    {s \in sites : FracLeq(CentroidDistance2(s.location, d.centroid),
                           Frac(Sq(km * TenthsPerKm), 1))}

\* WHERE ST_DWithin(i.location, d.geometry, $2 * 1000)
GridAffectedSet(sites, d, km) ==
    {s \in sites : DWithin2(s.location, d.geometry, km)}

\* ORDER BY distance_km ASC
RECURSIVE DistanceOrders(_, _)
DistanceOrders(sites, d) ==
    IF sites = {} THEN {<<>>}
    ELSE UNION {{<<GridAffectedRow(s, d)>> \o t : t \in DistanceOrders(sites \ {s}, d)} :
                s \in {m \in sites : \A o \in sites :
                          FracLeq(CentroidDistance2(m.location, d.centroid),
                                  CentroidDistance2(o.location, d.centroid))}}

\* findAffectedInfrastructure (44-74) on the grid: INNER JOIN disasters d ON
\* d.id = $1 yields no row when no disaster has the id.
GridAffectedOrders(sites, ds, km) ==
    IF ds = {} THEN {<<>>}
    ELSE UNION {DistanceOrders(GridAffectedSet(sites, d, km), d) : d \in ds}


\* The table the searches run on: two hospitals 2.3 km from the query point
\* (east and south of it), one 3.0 km north, a shelter 4.1 km north and a
\* school 15 km north.
GridSites ==
    {Site(1, "hospital", 23, 0), Site(2, "emergency_shelter", 0, 41),
     Site(3, "hospital", 0, 30), Site(4, "hospital", 0, 0 - 23),
     Site(5, "school", 0, 150)}

QueryPoint == Pt(0, 0)

\* A point disaster at the query point, and one that reaches 20 km north.
GridGeometries == {{Pt(0, 0)}, {Pt(0, 0), Pt(0, 200)}}

\* What an operator may set on an infrastructure row.
OperatorTypes == {"hospital", "emergency_shelter"}

\* What a caller may pass: a category of the table, an unknown one, none.
NearestTypeArgs ==
    {TypeArg("hospital"), TypeArg("emergency_shelter"), TypeArg("clinic"), NoTypeArg}
NearestLimits == {1, 2, 5}
AffectedRadii == {3, 10}

InitNear ==
    /\ \E g \in GridGeometries : disasters = {GridDisaster(1, g)}
    /\ census_blocks = {}
    /\ infrastructure = GridSites
    /\ impact_assessments = {}
    /\ alerts = {}
    /\ assessmentSeq = 0
    /\ writes = 0
    /\ ParkedCalls
    /\ ParkedLoss
    /\ ParkedPop
    /\ ParkedEdge
    /\ \E b \in LatitudeBands :
          opIn = [op |-> "proximity", point |-> QueryPoint, band |-> b]
    /\ opOut = IdleOut

\* UPDATE infrastructure SET operational_status = ...
SetOperationalStatus(id, b) ==
    /\ opOut = IdleOut
    /\ \E s \in infrastructure :
          /\ s.id = id
          /\ s.operational_status # b
          /\ infrastructure' = (infrastructure \ {s}) \cup
                                  {[s EXCEPT !.operational_status = b]}
    /\ UNCHANGED <<disasters, census_blocks, impact_assessments, alerts, assessmentSeq,
                   writes, callVars, lossVars, popVars, opIn, opOut, edgeVars>>

\* UPDATE infrastructure SET type = ...
SetInfrastructureType(id, t) ==
    /\ opOut = IdleOut
    /\ \E s \in infrastructure :
          /\ s.id = id
          /\ s.type # t
          /\ infrastructure' = (infrastructure \ {s}) \cup {[s EXCEPT !.type = t]}
    /\ UNCHANGED <<disasters, census_blocks, impact_assessments, alerts, assessmentSeq,
                   writes, callVars, lossVars, popVars, opIn, opOut, edgeVars>>

NearestResponse(caller, type, limit, o, status) ==
    [st |-> o.st, op |-> "nearest", caller |-> caller, type |-> type,
     limit |-> limit, rows |-> o.rows, error |-> o.error, status |-> status]

\* findNearestInfrastructure(point, type, limit) called by other code.
FindNearestInfrastructure(type, limit) ==
    /\ opOut = IdleOut
    /\ \E o \in FindNearestInfrastructureOutcomes(infrastructure, opIn.point,
                                                  type, limit, opIn.band) :
          opOut' = NearestResponse("direct", type, limit, o, 0)
    /\ UNCHANGED <<dbVars, callVars, lossVars, popVars, opIn, edgeVars>>

\* InfrastructureController.findNearest (part_002 99-131): 400 without a
\* type, else the service's rows, else the error handler's status.
FindNearest(type, limit) ==
    /\ opOut = IdleOut
    /\ IF ~type.given
       THEN opOut' = NearestResponse("http", type, limit,
                        [st |-> "err", rows |-> <<>>, error |-> NoError], 400)
       ELSE \E o \in FindNearestInfrastructureOutcomes(infrastructure, opIn.point,
                                                       type, limit, opIn.band) :
               opOut' = NearestResponse("http", type, limit, o,
                           IF o.st = "ok" THEN 200 ELSE ErrorStatus(o.error))
    /\ UNCHANGED <<dbVars, callVars, lossVars, popVars, opIn, edgeVars>>

\* The nearest query fails in the database or on the way to it.
FindNearestQueryFail(type, limit) ==
    /\ opOut = IdleOut
    /\ type.given
    /\ opOut' = NearestResponse("http", type, limit,
                    [st |-> "err", rows |-> <<>>, error |-> DbError("nearest")],
                    ErrorStatus(DbError("nearest")))
    /\ UNCHANGED <<dbVars, callVars, lossVars, popVars, opIn, edgeVars>>

\* findAffectedInfrastructure(1, km) (getNearbyInfrastructure, part_003
\* 280-300).
FindAffectedInfrastructure(km) ==
    /\ opOut = IdleOut
    /\ \E r \in GridAffectedOrders(infrastructure, DisasterRows(1), km) :
          opOut' = [st |-> "ok", op |-> "withinRadius", radius |-> km,
                    rows |-> r, error |-> NoError]
    /\ UNCHANGED <<dbVars, callVars, lossVars, popVars, opIn, edgeVars>>

FindAffectedQueryFail(km) ==
    /\ opOut = IdleOut
    /\ opOut' = [st |-> "err", op |-> "withinRadius", radius |-> km,
                 rows |-> <<>>, error |-> DbError("infrastructure")]
    /\ UNCHANGED <<dbVars, callVars, lossVars, popVars, opIn, edgeVars>>

NextNear ==
    \/ \E s \in GridSites, b \in BOOLEAN : SetOperationalStatus(s.id, b)
    \/ \E s \in GridSites, t \in OperatorTypes : SetInfrastructureType(s.id, t)
    \/ \E t \in NearestTypeArgs, n \in NearestLimits : FindNearestInfrastructure(t, n)
    \/ \E t \in NearestTypeArgs, n \in NearestLimits : FindNearest(t, n)
    \/ \E t \in NearestTypeArgs, n \in NearestLimits : FindNearestQueryFail(t, n)
    \/ \E km \in AffectedRadii : FindAffectedInfrastructure(km)
    \/ \E km \in AffectedRadii : FindAffectedQueryFail(km)

SpecNear == InitNear /\ [][NextNear]_vars

-----------------------------------------------------------------------------
(* calculateVulnerabilityScore (impactCalculation.js 157-180), a pure      *)
(* function of a demographics object.                                      *)

\* A property of the object: missing (undefined), null, or a number.
Undefined == [k |-> "undefined", n |-> 0]
JsNull    == [k |-> "null", n |-> 0]
JsNum(n)  == [k |-> "num", n |-> n]

\* Destructuring with a default (158-164): the default replaces undefined
\* only; in the arithmetic that follows null counts as 0.
Defaulted(v, dflt) ==
    CASE v.k = "undefined" -> dflt
      [] v.k = "null"      -> 0
      [] OTHER             -> v.n

\* 173-177 over a common denominator: score = WeightedSum100 / population.
WeightedSum100Even(e, c, d, l) == 25 * e + 25 * c + 25 * d + 25 * l

WeightedSum100(e, c, d, l) == 30 * e + 20 * c + 30 * d + 20 * l

\* Math.round of the floating-point sum of num / den.  The weights 0.3 and
\* 0.2 and most of the ratios have no exact binary representation, so a sum
\* that is exactly halfway between two integers is computed as that value or
\* as the double just below it, and rounds to either neighbour; any other
\* sum is farther from a half than the error and rounds to its nearest
\* integer.
FloatRound(num, den) ==
    IF 2 * (num % den) = den
    THEN {num \div den, (num \div den) + 1}
    ELSE {MathRound(num, den)}

\* The values calculateVulnerabilityScore can return.  With population 0
\* every ratio is a division by zero: 0 / 0 is NaN, which the sum, Math.round
\* and Math.min pass on; a positive count over 0 is Infinity, clamped to 100.
VulnerabilityScores(demographics) ==
    LET e   == Defaulted(demographics.elderly_population, 0)
        c   == Defaulted(demographics.children_population, 0)
        d   == Defaulted(demographics.disabled_population, 0)
        l   == Defaulted(demographics.low_income_population, 0)
        pop == Defaulted(demographics.population, 1)
    IN  IF pop = 0
        THEN IF e = 0 \/ c = 0 \/ d = 0 \/ l = 0 THEN {NaNV} ELSE {NumV(100)}
        ELSE {NumV(Min(100, r)) : r \in FloatRound(WeightedSum100(e, c, d, l), pop)}

Demographics(pop, e, c, d, l) ==
    [population |-> pop, elderly_population |-> e, children_population |-> c,
     disabled_population |-> d, low_income_population |-> l]

CountFields == {"elderly_population", "children_population",
                "disabled_population", "low_income_population"}

ScorePopulations == {Undefined, JsNum(0), JsNum(1), JsNum(12)}
ScoreCounts      == {Undefined, JsNull, JsNum(0), JsNum(1), JsNum(6), JsNum(12)}

\* A demographics object and the same object with one count raised.
InitScore ==
    /\ disasters = {}
    /\ census_blocks = {}
    /\ infrastructure = {}
    /\ impact_assessments = {}
    /\ alerts = {}
    /\ assessmentSeq = 0
    /\ writes = 0
    /\ ParkedCalls
    /\ ParkedLoss
    /\ ParkedPop
    /\ ParkedEdge
    /\ \E pop \in ScorePopulations, e, c, d, l \in ScoreCounts :
          LET demographics == Demographics(pop, e, c, d, l)
          IN  \E f \in CountFields, v \in ScoreCounts :
                 /\ demographics[f].k = "num"
                 /\ v.k = "num"
                 /\ v.n > demographics[f].n
                 /\ opIn = [op |-> "score", demographics |-> demographics,
                            raised |-> [demographics EXCEPT ![f] = v]]
    /\ opOut = IdleOut

CalculateVulnerabilityScore ==
    /\ opOut = IdleOut
    /\ opIn.op = "score"
    /\ \E v \in VulnerabilityScores(opIn.demographics),
          w \in VulnerabilityScores(opIn.raised) :
          opOut' = [st |-> "ok", op |-> "score", score |-> v, raised_score |-> w]
    /\ UNCHANGED <<dbVars, callVars, lossVars, popVars, opIn, edgeVars>>

NextScore == CalculateVulnerabilityScore

SpecScore == InitScore /\ [][NextScore]_vars

-----------------------------------------------------------------------------
(* createEvacuationZones(1) called on its own (the zones endpoint,         *)
(* part_001 29-43), over disaster geometries of one or several parts.      *)

ZoneCells == {0, 1, 2, 14, 30, 31, 60}

InitZones ==
    /\ \/ disasters = {}
       \/ \E g \in (SUBSET ZoneCells) \ {{}} :
             disasters = {DisasterRow(1, "flood", "minor", SqlNull, g)}
    /\ census_blocks = {}
    /\ infrastructure = {}
    /\ impact_assessments = {}
    /\ alerts = {}
    /\ assessmentSeq = 0
    /\ writes = 0
    /\ ParkedCalls
    /\ ParkedLoss
    /\ ParkedPop
    /\ ParkedEdge
    /\ opIn = [op |-> "zones"]
    /\ opOut = IdleOut

CreateEvacuationZones ==
    /\ opOut = IdleOut
    /\ opIn.op = "zones"
    /\ opOut' = [st |-> "ok", op |-> "zones",
                 row |-> EvacuationZonesRow(DisasterRows(1)), error |-> NoError]
    /\ UNCHANGED <<dbVars, callVars, lossVars, popVars, opIn, edgeVars>>

CreateEvacuationZonesFail ==
    /\ opOut = IdleOut
    /\ opIn.op = "zones"
    /\ opOut' = [st |-> "err", op |-> "zones", row |-> NoZones,
                 error |-> DbError("zones")]
    /\ UNCHANGED <<dbVars, callVars, lossVars, popVars, opIn, edgeVars>>

NextZones == CreateEvacuationZones \/ CreateEvacuationZonesFail

SpecZones == InitZones /\ [][NextZones]_vars

-----------------------------------------------------------------------------
(* calculateAffectedPopulation for two disasters, the geometry of the      *)
(* first contained in that of the second, over the same census_blocks.     *)

\* census_blocks rows: those of BlockPool and one with a negative
\* population, which INTEGER NOT NULL (schema 84) admits.
NestedBlockPool ==
    BlockPool \cup
    {Block(5, 27..29, 0 - 40, SqlInt(3), SqlInt(0 - 2), SqlNull, SqlInt(1))}

NestedGeometries ==
    {<<g1, g2>> \in PopGeometries \X (PopGeometries \cup
                                     {ST_Buffer(g, 10) : g \in PopGeometries}) :
        g1 \subseteq g2 /\ g1 # g2}

InitNested ==
    /\ \E pair \in NestedGeometries :
          disasters = {DisasterRow(1, "wildfire", "moderate", SqlNull, pair[1]),
                       DisasterRow(2, "wildfire", "moderate", SqlNull, pair[2])}
    /\ census_blocks \in SUBSET NestedBlockPool
    /\ infrastructure = {}
    /\ impact_assessments = {}
    /\ alerts = {}
    /\ assessmentSeq = 0
    /\ writes = 0
    /\ ParkedCalls
    /\ ParkedLoss
    /\ ParkedPop
    /\ ParkedEdge
    /\ opIn = [op |-> "nested", inner |-> 1, outer |-> 2]
    /\ opOut = IdleOut

\* calculateAffectedPopulation(1), then calculateAffectedPopulation(2).
CalculateAffectedPopulationOfBoth ==
    /\ opOut = IdleOut
    /\ opIn.op = "nested"
    /\ opOut' = [st |-> "ok", op |-> "nested",
                 inner |-> AffectedPopulationRow(census_blocks, DisasterRows(opIn.inner)),
                 outer |-> AffectedPopulationRow(census_blocks, DisasterRows(opIn.outer))]
    /\ UNCHANGED <<dbVars, callVars, lossVars, popVars, opIn, edgeVars>>

NextNested == CalculateAffectedPopulationOfBoth

SpecNested == InitNested /\ [][NextNested]_vars

-----------------------------------------------------------------------------
(* calculateDisasterHotspots (spatialAnalysis.js 226-252) behind the       *)
(* hotspots endpoint (part_001 48-66).                                     *)

LookbackYears == 5

\* A disasters row with its start_time, counted in years.
HistoricDisaster(id, type, cell, start_time) ==
    [id |-> id, type |-> type, geometry |-> {cell},
     centroid |-> ST_Centroid({cell}), start_time |-> start_time]

ParticipatingOfAnyAge(rows, type, now) == {d \in rows : d.type = type}

\* WHERE type = $1 AND start_time > NOW() - INTERVAL '5 years'
Participating(rows, type, now) ==
    {d \in rows : d.type = type /\ d.start_time > now - LookbackYears}

\* ST_ClusterKMeans refuses more clusters than rows ("K must be smaller than
\* the number of rows in the group"), an internal error of the database.
KMeansError == "DbError XX000: K must be smaller than the number of rows"

\* ST_ClusterKMeans(centroid, k) OVER (): a cluster number below k for every
\* row; which rows share a cluster is left open.
ClusterAssignments(rows, k) == [rows -> 0..(k - 1)]

RECURSIVE CentroidSum(_)
CentroidSum(rows) ==
    IF rows = {} THEN 0
    ELSE LET d == CHOOSE x \in rows : TRUE
         IN  d.centroid.num + CentroidSum(rows \ {d})

\* GROUP BY cluster_id: COUNT(*) and the centroid of the collected centroids.
HotspotRows(rows, a) ==
    {[cluster_id     |-> c,
      disaster_count |-> SqlCount({d \in rows : a[d] = c}),
      cluster_center |-> Frac(CentroidSum({d \in rows : a[d] = c}),
                              Cardinality({d \in rows : a[d] = c}))] :
        c \in {a[d] : d \in rows}}

\* ORDER BY disaster_count DESC (equal counts in any order)
RECURSIVE CountOrders(_)
CountOrders(groups) ==
    IF groups = {} THEN {<<>>}
    ELSE UNION {{<<g>> \o t : t \in CountOrders(groups \ {g})} :
                g \in {m \in groups : \A o \in groups :
                          ParseInt(m.disaster_count).n >= ParseInt(o.disaster_count).n}}

\* What the query yields: rows, or the error it raised; clustered names the
\* rows of the CTE the groups were counted from.
HotspotOutcomes(rows, type, k, now) ==
    LET part == Participating(rows, type, now)
    IN  IF part # {} /\ Cardinality(part) < k
        THEN {[st |-> "err", rows |-> <<>>, error |-> KMeansError, clustered |-> {}]}
        ELSE {[st |-> "ok", rows |-> o, error |-> NoError,
               clustered |-> {d.id : d \in part}] :
                 o \in UNION {CountOrders(HotspotRows(part, a)) :
                                a \in ClusterAssignments(part, k)}}

HistoricPool ==
    {HistoricDisaster(1, "wildfire", 10, 2029),
     HistoricDisaster(2, "wildfire", 12, 2028),
     HistoricDisaster(3, "wildfire", 50, 2027),
     HistoricDisaster(4, "wildfire", 90, 2031),
     HistoricDisaster(5, "wildfire", 11, 2020),
     HistoricDisaster(6, "flood", 10, 2029)}

HotspotTypes    == {"wildfire", "flood"}
HotspotClusters == {1, 2, 3, 5}

InitHot ==
    /\ disasters \in SUBSET HistoricPool
    /\ census_blocks = {}
    /\ infrastructure = {}
    /\ impact_assessments = {}
    /\ alerts = {}
    /\ assessmentSeq = 0
    /\ writes = 0
    /\ ParkedCalls
    /\ ParkedLoss
    /\ ParkedPop
    /\ ParkedEdge
    /\ opIn = [op |-> "hotspots", now |-> 2030]
    /\ opOut = IdleOut

HotspotResponse(type, k, o) ==
    [st |-> o.st, op |-> "hotspots", type |-> type, clusters |-> k,
     rows |-> o.rows, error |-> o.error, clustered |-> o.clustered,
     status |-> IF o.st = "ok" THEN 200 ELSE ErrorStatus(o.error)]

\* ImpactController.getDisasterHotspots: calculateDisasterHotspots(type, k),
\* its rows served or its error passed to the error handler.
GetDisasterHotspots(type, k) ==
    /\ opOut = IdleOut
    /\ opIn.op = "hotspots"
    /\ \E o \in HotspotOutcomes(disasters, type, k, opIn.now) :
          opOut' = HotspotResponse(type, k, o)
    /\ UNCHANGED <<dbVars, callVars, lossVars, popVars, opIn, edgeVars>>

\* The query fails in the database or on the way to it.
HotspotsQueryFail(type, k) ==
    /\ opOut = IdleOut
    /\ opIn.op = "hotspots"
    /\ opOut' = HotspotResponse(type, k,
                   [st |-> "err", rows |-> <<>>, error |-> DbError("hotspots"),
                    clustered |-> {}])
    /\ UNCHANGED <<dbVars, callVars, lossVars, popVars, opIn, edgeVars>>

NextHot ==
    \/ \E t \in HotspotTypes, k \in HotspotClusters : GetDisasterHotspots(t, k)
    \/ \E t \in HotspotTypes, k \in HotspotClusters : HotspotsQueryFail(t, k)

SpecHot == InitHot /\ [][NextHot]_vars

-----------------------------------------------------------------------------
(* The tables under statements from any writer: INSERT, UPDATE and DELETE  *)
(* on disasters, INSERT on impact_assessments and on alerts, with the      *)
(* triggers and foreign keys of 001_initial_schema.sql.                    *)

MaxStatements == 4

TableGeometries  == {{20}, {20, 21}, {40}}
WriterCentroids  == {OmittedCentroid, [num |-> 20, den |-> 1], [num |-> 99, den |-> 1]}
TableReferences  == {NoDisasterId, 1, 2, 3}

InitTables ==
    /\ disasters = {}
    /\ census_blocks = {}
    /\ infrastructure = {}
    /\ impact_assessments = {}
    /\ alerts = {}
    /\ assessmentSeq = 0
    /\ writes = 0
    /\ ParkedCalls
    /\ ParkedLoss
    /\ ParkedPop
    /\ ParkedEdge
    /\ opIn = [op |-> "tables", disasterSeq |-> 0, alertSeq |-> 0]
    /\ opOut = IdleOut

StatementResult(op, id, supplied, removed, error) ==
    [st |-> IF error = NoError THEN "ok" ELSE "err", op |-> op, id |-> id,
     supplied |-> supplied, removed |-> removed, error |-> error]

\* INSERT INTO disasters (..., geometry, centroid, ...): id from the SERIAL
\* sequence (schema 38), the BEFORE INSERT trigger on the new row.
InsertDisasterRow(g, c) ==
    /\ opIn.op = "tables"
    /\ writes < MaxStatements
    /\ LET id == opIn.disasterSeq + 1
       IN  /\ disasters' = disasters \cup
                 {UpdateDisasterCentroid(
                     [id |-> id, type |-> "earthquake", severity |-> "severe",
                      area_sq_km |-> SqlNull, geometry |-> g, centroid |-> c,
                      updated_at |-> 0])}
           /\ opIn' = [opIn EXCEPT !.disasterSeq = id]
           /\ opOut' = StatementResult("insert_disaster", id, c, 0, NoError)
    /\ writes' = writes + 1
    /\ UNCHANGED <<census_blocks, infrastructure, impact_assessments, alerts,
                   assessmentSeq, callVars, lossVars, popVars, edgeVars>>

\* UPDATE disasters SET geometry = g [, centroid = c] WHERE id = d: a SET
\* list without centroid leaves NEW.centroid as it was; the BEFORE UPDATE
\* triggers run on NEW (schema 164-176, 194-205).
UpdateDisasterRow(d, g, c) ==
    /\ opIn.op = "tables"
    /\ writes < MaxStatements
    /\ \E old \in DisasterRows(d) :
          disasters' = (disasters \ {old}) \cup
             {UpdateDisasterCentroid(
                 [old EXCEPT !.geometry = g,
                             !.centroid = IF c = OmittedCentroid THEN old.centroid ELSE c,
                             !.updated_at = writes + 1])}
    /\ opOut' = StatementResult("update_disaster", d, c, 0, NoError)
    /\ writes' = writes + 1
    /\ UNCHANGED <<census_blocks, infrastructure, impact_assessments, alerts,
                   assessmentSeq, callVars, lossVars, popVars, opIn, edgeVars>>

\* The foreign key of schema 103 and 131: NULL, or the id of a disasters row.
ReferenceAccepted(ref) == ref = NoDisasterId \/ DisasterRows(ref) # {}

\* INSERT INTO impact_assessments (disaster_id, ...): the sequence advances
\* whether or not the foreign key accepts the row.
InsertAssessmentRow(ref) ==
    /\ opIn.op = "tables"
    /\ writes < MaxStatements
    /\ assessmentSeq' = assessmentSeq + 1
    /\ IF ReferenceAccepted(ref)
         THEN /\ impact_assessments' = impact_assessments \cup
                    {AssessmentRow(assessmentSeq',
                                   [NoAssessment EXCEPT !.disaster_id = ref],
                                   NoZones)}
              /\ opOut' = StatementResult("insert_assessment", assessmentSeq',
                                          OmittedCentroid, 0, NoError)
         ELSE /\ UNCHANGED impact_assessments
              /\ opOut' = StatementResult("insert_assessment", assessmentSeq',
                                          OmittedCentroid, 0, FkViolation)
    /\ writes' = writes + 1
    /\ UNCHANGED <<disasters, census_blocks, infrastructure, alerts,
                   callVars, lossVars, popVars, opIn, edgeVars>>

\* INSERT INTO alerts (disaster_id, ...)
InsertAlertRow(ref) ==
    /\ opIn.op = "tables"
    /\ writes < MaxStatements
    /\ opIn' = [opIn EXCEPT !.alertSeq = opIn.alertSeq + 1]
    /\ IF ReferenceAccepted(ref)
         THEN /\ alerts' = alerts \cup
                    {[id |-> opIn'.alertSeq, disaster_id |-> ref]}
              /\ opOut' = StatementResult("insert_alert", opIn'.alertSeq,
                                          OmittedCentroid, 0, NoError)
         ELSE /\ UNCHANGED alerts
              /\ opOut' = StatementResult("insert_alert", opIn'.alertSeq,
                                          OmittedCentroid, 0, FkViolation)
    /\ writes' = writes + 1
    /\ UNCHANGED <<disasters, census_blocks, infrastructure, impact_assessments,
                   assessmentSeq, callVars, lossVars, popVars, edgeVars>>

\* DELETE FROM disasters WHERE id = d: both foreign keys cascade.
DeleteDisasterRow(d) ==
    /\ opIn.op = "tables"
    /\ writes < MaxStatements
    /\ DisasterRows(d) # {}
    /\ disasters' = disasters \ DisasterRows(d)
    /\ impact_assessments' = RemainingAssessments(impact_assessments, d)
    /\ alerts' = RemainingAlerts(alerts, d)
    /\ opOut' = StatementResult("delete_disaster", d, OmittedCentroid,
                    Cardinality(impact_assessments) - Cardinality(impact_assessments')
                    + Cardinality(alerts) - Cardinality(alerts'),
                    NoError)
    /\ writes' = writes + 1
    /\ UNCHANGED <<census_blocks, infrastructure, assessmentSeq,
                   callVars, lossVars, popVars, opIn, edgeVars>>

NextTables ==
    \/ \E g \in TableGeometries, c \in WriterCentroids : InsertDisasterRow(g, c)
    \/ \E d \in DisasterIds, g \in TableGeometries, c \in WriterCentroids :
          UpdateDisasterRow(d, g, c)
    \/ \E ref \in TableReferences : InsertAssessmentRow(ref)
    \/ \E ref \in TableReferences : InsertAlertRow(ref)
    \/ \E d \in DisasterIds : DeleteDisasterRow(d)

SpecTables == InitTables /\ [][NextTables]_vars

-----------------------------------------------------------------------------
(* WebSocketService (services/websocket.js): the sockets the server has    *)
(* seen, the clients set, subscribe messages and the four broadcasts.      *)

Sockets        == {1, 2}
SubscribeTypes == {"flood", "wildfire"}
BroadcastTypes == SubscribeTypes \cup {"earthquake"}
BroadcastKinds == {"new_disaster", "disaster_update", "alert", "impact_assessment"}

\* ws.subscriptions before any subscribe message: undefined
NoSubscriptions == [defined |-> FALSE, types |-> {}]
\* data.disasterTypes of a subscribe message: a list of types, or missing
SubscribeLists ==
    {NoSubscriptions} \cup {[defined |-> TRUE, types |-> t] : t \in SUBSET SubscribeTypes}

\* A socket the server has not seen yet; events and message are the history
\* of the socket: the events fired on it and its latest subscribe message.
NewSocket == [readyState |-> "CONNECTING", events |-> {},
              subscriptions |-> NoSubscriptions, message |-> NoSubscriptions]

NoBroadcast == [kind |-> "none", type |-> "none", sent |-> [w \in Sockets |-> 0]]

InitWss ==
    /\ disasters = {}
    /\ census_blocks = {}
    /\ infrastructure = {}
    /\ impact_assessments = {}
    /\ alerts = {}
    /\ assessmentSeq = 0
    /\ writes = 0
    /\ ParkedCalls
    /\ ParkedLoss
    /\ ParkedPop
    /\ ParkedOp
    /\ wss = [st |-> "listening", clients |-> {},
              sock |-> [w \in Sockets |-> NewSocket], last |-> NoBroadcast]
    /\ pool = NotRunning
    /\ mapView = NotRunning

WssUnchanged == UNCHANGED <<dbVars, callVars, lossVars, popVars, opVars, pool, mapView>>

\* wss.on('connection'): lines 20-31, the socket is added and welcomed.
OnConnection(w) ==
    /\ wss.st = "listening"
    /\ wss.sock[w].readyState = "CONNECTING"
    /\ wss' = [wss EXCEPT !.clients = @ \cup {w},
                          !.sock[w].readyState = "OPEN",
                          !.sock[w].events = @ \cup {"connection"},
                          !.last = NoBroadcast]
    /\ WssUnchanged

\* The closing handshake starts: readyState is CLOSING until 'close' fires.
StartClosing(w) ==
    /\ wss.st = "listening"
    /\ wss.sock[w].readyState = "OPEN"
    /\ wss' = [wss EXCEPT !.sock[w].readyState = "CLOSING", !.last = NoBroadcast]
    /\ WssUnchanged

ClientsAfterErrorKept(clients, w) == clients

\* this.clients.delete(ws) of the 'close' handler (line 45) and of the
\* 'error' handler (line 52)
ClientsAfterClose(clients, w) == clients \ {w}
ClientsAfterError(clients, w) == clients \ {w}

\* ws.on('close'): lines 44-47
OnClose(w) ==
    /\ wss.st = "listening"
    /\ wss.sock[w].readyState \in {"OPEN", "CLOSING"}
    /\ wss' = [wss EXCEPT !.clients = ClientsAfterClose(@, w),
                          !.sock[w].readyState = "CLOSED",
                          !.sock[w].events = @ \cup {"close"},
                          !.last = NoBroadcast]
    /\ WssUnchanged

\* ws.on('error'): lines 50-53; the socket may still report OPEN when the
\* handler runs, 'close' follows later.
OnError(w, after) ==
    /\ wss.st = "listening"
    /\ wss.sock[w].readyState \in {"OPEN", "CLOSING"}
    /\ after \in {wss.sock[w].readyState, "CLOSING"}
    /\ wss' = [wss EXCEPT !.clients = ClientsAfterError(@, w),
                          !.sock[w].readyState = after,
                          !.sock[w].events = @ \cup {"error"},
                          !.last = NoBroadcast]
    /\ WssUnchanged

HandleSubscribeMerging(sock, list) ==
    [sock EXCEPT !.subscriptions =
        [defined |-> TRUE, types |-> sock.subscriptions.types \cup list.types]]

\* handleMessage, case 'subscribe' (lines 64-71):
\* ws.subscriptions = data.disasterTypes || []
HandleSubscribe(sock, list) ==
    [sock EXCEPT !.subscriptions = [defined |-> TRUE, types |-> list.types]]

\* ws.on('message') with a subscribe message (lines 34-41, 62-71)
OnSubscribe(w, list) ==
    /\ wss.st = "listening"
    /\ wss.sock[w].readyState \in {"OPEN", "CLOSING"}
    /\ wss' = [wss EXCEPT !.sock[w] = [HandleSubscribe(@, list) EXCEPT !.message = list],
                          !.last = NoBroadcast]
    /\ WssUnchanged

\* The filter of broadcastNewDisaster and broadcastDisasterUpdate (lines
\* 92-97, 110-114); broadcastAlert and broadcastImpactAssessment pass none.
BroadcastFilter(kind, type, sock) ==
    \/ kind \in {"alert", "impact_assessment"}
    \/ ~sock.subscriptions.defined
    \/ sock.subscriptions.types = {}
    \/ type \in sock.subscriptions.types

\* broadcast (lines 147-160): how many messages each socket is sent.
BroadcastSends(kind, type) ==
    [w \in Sockets |->
        IF /\ w \in wss.clients
           /\ wss.sock[w].readyState = "OPEN"
           /\ BroadcastFilter(kind, type, wss.sock[w])
          THEN 1 ELSE 0]

\* broadcastNewDisaster, broadcastDisasterUpdate, broadcastAlert,
\* broadcastImpactAssessment (lines 85-142)
Broadcast(kind, type) ==
    /\ wss.st = "listening"
    /\ wss' = [wss EXCEPT !.last = [kind |-> kind, type |-> type,
                                    sent |-> BroadcastSends(kind, type)]]
    /\ WssUnchanged

\* getClientCount (lines 165-167)
getClientCount == Cardinality(wss.clients)

NextWss ==
    \/ \E w \in Sockets : OnConnection(w)
    \/ \E w \in Sockets : StartClosing(w)
    \/ \E w \in Sockets : OnClose(w)
    \/ \E w \in Sockets, after \in {"OPEN", "CLOSING"} : OnError(w, after)
    \/ \E w \in Sockets, list \in SubscribeLists : OnSubscribe(w, list)
    \/ \E kind \in BroadcastKinds, type \in BroadcastTypes : Broadcast(kind, type)

SpecWss == InitWss /\ [][NextWss]_vars

-----------------------------------------------------------------------------
(* The transaction helper of config/database.js (lines 36-50), run by two  *)
(* callers at once, each step of a run succeeding or failing.              *)

Runs            == {1, 2}
CallbackResults == {"rows", "nothing"}

NewRun == [pc |-> "connect", issued |-> <<>>, failed |-> "none",
           result |-> "none", thrown |-> NoError, released |-> 0,
           releasedAfter |-> 0, outcome |-> "pending", value |-> "none",
           error |-> NoError]

InitTx ==
    /\ disasters = {}
    /\ census_blocks = {}
    /\ infrastructure = {}
    /\ impact_assessments = {}
    /\ alerts = {}
    /\ assessmentSeq = 0
    /\ writes = 0
    /\ ParkedCalls
    /\ ParkedLoss
    /\ ParkedPop
    /\ ParkedOp
    /\ wss = NotRunning
    /\ pool = [st |-> "up", run |-> [r \in Runs |-> NewRun]]
    /\ mapView = NotRunning

TxUnchanged == UNCHANGED <<dbVars, callVars, lossVars, popVars, opVars, wss, mapView>>

\* const client = await pool.connect() (line 37); a rejection leaves the
\* helper before the try block.
Connect(r, ok) ==
    /\ pool.st = "up"
    /\ pool.run[r].pc = "connect"
    /\ pool' = IF ok
                 THEN [pool EXCEPT !.run[r].pc = "begin"]
                 ELSE [pool EXCEPT !.run[r].pc = "done",
                                   !.run[r].failed = "connect",
                                   !.run[r].outcome = "rejected",
                                   !.run[r].error = DbError("connect")]
    /\ TxUnchanged

\* One awaited step of the try block (lines 39-42): client.query('BEGIN'),
\* callback(client), client.query('COMMIT'); a failure enters the catch.
TryStep(r, step, next, statement, ok, result) ==
    /\ pool.st = "up"
    /\ pool.run[r].pc = step
    /\ pool' = [pool EXCEPT
          !.run[r].issued = @ \o statement,
          !.run[r].pc     = IF ok THEN next ELSE "rollback",
          !.run[r].failed = IF ok THEN @ ELSE step,
          !.run[r].thrown = IF ok THEN @ ELSE DbError(step),
          !.run[r].result = IF ok /\ step = "callback" THEN result ELSE @]
    /\ TxUnchanged

Begin(r, ok)            == TryStep(r, "begin", "callback", <<"BEGIN">>, ok, "none")
Callback(r, ok, result) == TryStep(r, "callback", "commit", <<>>, ok, result)
Commit(r, ok)           == TryStep(r, "commit", "finally", <<"COMMIT">>, ok, "none")

\* catch (lines 43-45): await client.query('ROLLBACK'); throw error. A
\* failing ROLLBACK throws in place of the error that was caught.
Rollback(r, ok) ==
    /\ pool.st = "up"
    /\ pool.run[r].pc = "rollback"
    /\ pool' = [pool EXCEPT
          !.run[r].issued = Append(@, "ROLLBACK"),
          !.run[r].pc     = "finally",
          !.run[r].thrown = IF ok THEN @ ELSE DbError("rollback")]
    /\ TxUnchanged

\* finally (lines 46-48): client.release(), then the helper settles.
Release(r) ==
    /\ pool.st = "up"
    /\ pool.run[r].pc = "finally"
    /\ pool' = [pool EXCEPT
          !.run[r].pc            = "done",
          !.run[r].released      = @ + 1,
          !.run[r].releasedAfter = Len(pool.run[r].issued),
          !.run[r].outcome       = IF pool.run[r].thrown = NoError
                                     THEN "resolved" ELSE "rejected",
          !.run[r].value         = IF pool.run[r].thrown = NoError
                                     THEN pool.run[r].result ELSE "none",
          !.run[r].error         = pool.run[r].thrown]
    /\ TxUnchanged

NextTx ==
    \/ \E r \in Runs, ok \in BOOLEAN : Connect(r, ok)
    \/ \E r \in Runs, ok \in BOOLEAN : Begin(r, ok)
    \/ \E r \in Runs, ok \in BOOLEAN, res \in CallbackResults : Callback(r, ok, res)
    \/ \E r \in Runs, ok \in BOOLEAN : Commit(r, ok)
    \/ \E r \in Runs, ok \in BOOLEAN : Rollback(r, ok)
    \/ \E r \in Runs : Release(r)

SpecTx == InitTx /\ [][NextTx]_vars

-----------------------------------------------------------------------------
(* The infrastructure section of getDisasterImpactSummary(1)                *)
(* (spatialAnalysis.js 259-296) over tables of up to thirteen sites, on    *)
(* the grid of the proximity searches.                                     *)

\* Eleven sites every 0.5 km north of the disaster's first point, one 0.5 km
\* south of it and one 15 km north.
SummarySites ==
    {Site(k, IF k % 3 = 0 THEN "hospital"
             ELSE IF k % 3 = 1 THEN "emergency_shelter" ELSE "school",
          0, 5 * k) : k \in 1..11}
    \cup {Site(12, "fire_station", 0, 0 - 5), Site(13, "hospital", 0, 150)}

SummaryTables ==
    {t \in SUBSET SummarySites :
        Cardinality(t) <= 1 \/ Cardinality(SummarySites \ t) <= 2}

InitSummary ==
    /\ \/ disasters = {}
       \/ \E g \in GridGeometries : disasters = {GridDisaster(1, g)}
    /\ census_blocks = {}
    /\ infrastructure \in SummaryTables
    /\ impact_assessments = {}
    /\ alerts = {}
    /\ assessmentSeq = 0
    /\ writes = 0
    /\ ParkedCalls
    /\ ParkedLoss
    /\ ParkedPop
    /\ ParkedEdge
    /\ opIn = [op |-> "summary"]
    /\ opOut = IdleOut

\* Lines 261-265 and 267-271, 283-287: findAffectedInfrastructure(1, 10)
\* and the infrastructure section built from its rows.
GetDisasterImpactSummary ==
    /\ opOut = IdleOut
    /\ opIn.op = "summary"
    /\ \E r \in GridAffectedOrders(infrastructure, DisasterRows(1), 10) :
          opOut' = [st |-> "ok", op |-> "summary", rows |-> r,
                    infrastructure |->
                       [total   |-> Len(r),
                        by_type |-> InfrastructureByType(r),
                        details |-> InfrastructureDetails(r)],
                    error |-> NoError]
    /\ UNCHANGED <<dbVars, callVars, lossVars, popVars, opIn, edgeVars>>

\* One of the three queries fails: lines 291-294 rethrow.
GetDisasterImpactSummaryFail ==
    /\ opOut = IdleOut
    /\ opIn.op = "summary"
    /\ opOut' = [st |-> "err", op |-> "summary", rows |-> <<>>,
                 infrastructure |-> [total |-> 0, by_type |-> <<>>, details |-> <<>>],
                 error |-> DbError("infrastructure")]
    /\ UNCHANGED <<dbVars, callVars, lossVars, popVars, opIn, edgeVars>>

NextSummary == GetDisasterImpactSummary \/ GetDisasterImpactSummaryFail

SpecSummary == InitSummary /\ [][NextSummary]_vars

-----------------------------------------------------------------------------
(* MapContainer (frontend components/Map/MapContainer.jsx): the map's load *)
(* and moveend events, the loadDisasters requests they start and the       *)
(* responses, which arrive in any order.                                   *)

MaxRequests == 3

MapBounds == {"north_america", "gulf_coast", "california"}

\* useState([]) (line 14) and the empty FeatureCollection of the source
\* (lines 73-79): no response held, written as request 0.
InitMap ==
    /\ disasters = {}
    /\ census_blocks = {}
    /\ infrastructure = {}
    /\ impact_assessments = {}
    /\ alerts = {}
    /\ assessmentSeq = 0
    /\ writes = 0
    /\ ParkedCalls
    /\ ParkedLoss
    /\ ParkedPop
    /\ ParkedOp
    /\ wss = NotRunning
    /\ pool = NotRunning
    /\ mapView = [st |-> "mounted", loaded |-> FALSE, source |-> FALSE,
                  requests |-> <<>>, disasters |-> 0, markers |-> 0,
                  bounds |-> "north_america"]

MapUnchanged == UNCHANGED <<dbVars, callVars, lossVars, popVars, opVars, wss, pool>>

\* loadDisasters up to its await (lines 55-62): the request for the map's
\* bounds is sent.
RequestSent(requests, b) == Append(requests, [bounds |-> b, status |-> "inflight"])

\* map.on('load') (lines 40-45): loadDisasters(), then addDisasterLayers()
OnLoad ==
    /\ mapView.st = "mounted"
    /\ ~mapView.loaded
    /\ mapView' = [mapView EXCEPT !.loaded = TRUE, !.source = TRUE,
                                  !.requests = RequestSent(@, mapView.bounds)]
    /\ MapUnchanged

\* The user moves the map and map.on('moveend') fires (lines 48-50).
OnMoveEnd(b) ==
    /\ mapView.st = "mounted"
    /\ mapView.loaded
    /\ Len(mapView.requests) < MaxRequests
    /\ mapView' = [mapView EXCEPT !.bounds = b, !.requests = RequestSent(@, b)]
    /\ MapUnchanged

\* updateDisasterMarkers (lines 144-165): nothing without the source
MarkersAfter(view, r) == IF view.source THEN r ELSE view.markers

\* The await of request r resolves (lines 64-65): setDisasters(data),
\* updateDisasterMarkers(data).
OnResponse(r) ==
    /\ mapView.st = "mounted"
    /\ r \in DOMAIN mapView.requests
    /\ mapView.requests[r].status = "inflight"
    /\ mapView' = [mapView EXCEPT !.requests[r].status = "ok",
                                  !.disasters = r,
                                  !.markers = MarkersAfter(mapView, r)]
    /\ MapUnchanged

\* The await of request r rejects (lines 66-68): the error is logged.
OnRequestFailed(r) ==
    /\ mapView.st = "mounted"
    /\ r \in DOMAIN mapView.requests
    /\ mapView.requests[r].status = "inflight"
    /\ mapView' = [mapView EXCEPT !.requests[r].status = "failed"]
    /\ MapUnchanged

NextMap ==
    \/ OnLoad
    \/ \E b \in MapBounds : OnMoveEnd(b)
    \/ \E r \in 1..MaxRequests : OnResponse(r)
    \/ \E r \in 1..MaxRequests : OnRequestFailed(r)

SpecMap == InitMap /\ [][NextMap]_vars

-----------------------------------------------------------------------------
(* Properties.                                                             *)

Settled(i) == pc[i] \in {"returned", "threw"}

SubComputationFailed(i) ==
    \/ call[i].population.st = "err"
    \/ call[i].infrastructure.st = "err"
    \/ call[i].zones.st = "err"
    \/ call[i].loss.caught # NoError

\* C1: calculateFullImpact is all-or-nothing: an invocation in which any
\* sub-computation failed (population, infrastructure, zones, or the loss
\* estimation with its disaster lookup) ends in an error, inserts no row and
\* returns no assessment.
C1_AllOrNothing ==
    \A i \in Invocations :
        SubComputationFailed(i) =>
            /\ pc[i] # "returned"
            /\ call[i].inserted = 0

\* The invocation ran to its end without any query raising an error and
\* without any of its queries finding a disasters row.
RanUnresolved(i) ==
    /\ Settled(i)
    /\ \A q \in QueryNames : call[i].raised[q] = NoError
    /\ call[i].population.seen = NotRead
    /\ call[i].infrastructure.seen = NotRead
    /\ call[i].zones.seen = NotRead
    /\ call[i].loss.seen = NotRead

\* C2: an invocation whose disaster identifier resolves to no row when the
\* computation runs fails with the NotFound error 'Disaster not found', not
\* with another error or a result, and inserts nothing.
C2_UnresolvedFailsNotFound ==
    \A i \in Invocations :
        RanUnresolved(i) =>
            /\ pc[i] = "threw"
            /\ call[i].error = NotFoundError
            /\ call[i].inserted = 0

C3_Base == [minor |-> 5000, moderate |-> 15000, severe |-> 40000, extreme |-> 100000]
C3_Mult10 == [wildfire |-> 15, earthquake |-> 20, flood |-> 12, hurricane |-> 18,
              tornado |-> 16, severe_weather |-> 8, drought |-> 10, winter_storm |-> 9]

\* v = round(tenths / 10), halves up
IsRoundOfTenths(v, tenths) ==
    /\ 0 - 5 <= tenths - 10 * v
    /\ tenths - 10 * v < 5

C3_Area100(d) == IF d.area_sq_km.isNull THEN 0 ELSE d.area_sq_km.c

\* C3: for a disaster that resolves, with category c, severity s and stored
\* area a (absent counts as 0), and affected population p >= 0,
\* estimateEconomicLoss returns round(p * base[s] * mult[c] + a * 500000);
\* earthquake / severe / p = 1000 / a = 0 gives 80,000,000.
C3_LossFormula ==
    \A d \in disasters :
        (/\ lossOut.st = "ok"
         /\ lossOut.raised = NoError
         /\ d.id = 1
         /\ d.type \in DOMAIN C3_Mult10
         /\ d.severity \in DOMAIN C3_Base)
        => /\ lossOut.caught = NoError
           /\ IsRoundOfTenths(lossOut.value,
                  lossIn * C3_Base[d.severity] * C3_Mult10[d.type]
                  + C3_Area100(d) * 50000)
           /\ (/\ d.type = "earthquake" /\ d.severity = "severe"
               /\ lossIn = 1000 /\ C3_Area100(d) = 0)
              => lossOut.value = 80000000

C3_Witness ==
    /\ lossOut.st = "ok"
    /\ lossOut.raised = NoError
    /\ lossIn = 1000
    /\ lossOut.value = 80000000
    /\ \E d \in disasters : /\ d.type = "earthquake" /\ d.severity = "severe"
                            /\ d.area_sq_km = SqlInt(0)

\* C4: a severity that is absent (not minor/moderate/severe/extreme) does not
\* make estimateEconomicLoss fail and counts 10000 per person, which lies
\* strictly between the minor and extreme amounts; a category outside the
\* multiplier table counts with multiplier 1.0; the result is still
\* round(p * perPerson * multiplier + area * 500000).
C4_LossDefaults ==
    \A d \in disasters :
        (/\ lossOut.st = "ok"
         /\ lossOut.raised = NoError
         /\ d.id = 1
         /\ (d.type \notin DOMAIN C3_Mult10 \/ d.severity \notin DOMAIN C3_Base))
        => LET perPerson == IF d.severity \in DOMAIN C3_Base
                            THEN C3_Base[d.severity] ELSE 10000
               mult10    == IF d.type \in DOMAIN C3_Mult10
                            THEN C3_Mult10[d.type] ELSE 10
           IN  /\ lossOut.caught = NoError
               /\ IsRoundOfTenths(lossOut.value,
                      lossIn * perPerson * mult10 + C3_Area100(d) * 50000)
               /\ d.severity \notin DOMAIN C3_Base
                  => /\ C3_Base["minor"] < BasePerPersonLoss(d.severity)
                     /\ BasePerPersonLoss(d.severity) < C3_Base["extreme"]

C4_Witness ==
    /\ lossOut.st = "ok"
    /\ lossOut.raised = NoError
    /\ lossIn = 7
    /\ lossOut.value = 70000 + 1250000
    /\ \E d \in disasters : /\ d.type = "landslide" /\ d.severity = NullSeverity
                            /\ d.area_sq_km = SqlInt(250)

\* C5: within one invocation the loss estimation (its lookup query) is never
\* started before population, infrastructure and zones have all completed
\* successfully, and never at all once one of them has failed.
C5_ScoringWaitsForAll ==
    \A i \in Invocations :
        /\ (call[i].queries["lookup"] > 0 \/ call[i].loss.st # "idle")
           => /\ call[i].population.st = "ok"
              /\ call[i].infrastructure.st = "ok"
              /\ call[i].zones.st = "ok"
        /\ ("err" \in {call[i].population.st, call[i].infrastructure.st,
                       call[i].zones.st})
           => /\ call[i].queries["lookup"] = 0
              /\ pc[i] \notin {"loss", "insert", "returned"}

\* One invocation is scoring while the other has its zones before its
\* population: the three complete in any order.
C5_Witness ==
    \E i, j \in Invocations :
        /\ pc[i] = "loss" /\ call[i].queries["lookup"] = 1
        /\ pc[j] = "summary"
        /\ call[j].zones.st = "ok" /\ call[j].population.st = "pending"

RowsFor(rows, d) == {r \in rows : r.assessment.disaster_id = d}

\* C6: the assessment history is append-only and one per invocation: an
\* invocation that returns has inserted exactly one row, one that throws has
\* inserted none, a row that stays in the table is never changed, rows appear
\* only with the return of the invocation that inserted them, and a disaster
\* that exists has as many rows as invocations have returned for it.
C6_AppendOnlyOnePerInvocation ==
    [][/\ \A i \in Invocations :
             /\ pc'[i] = "returned" => call'[i].inserted = 1
             /\ pc'[i] # "returned" => call'[i].inserted = 0
       /\ \A r \in impact_assessments :
             (\E x \in impact_assessments' : x.id = r.id)
             => r \in impact_assessments'
       /\ \A r \in impact_assessments' \ impact_assessments :
             \E i \in Invocations :
                /\ pc[i] = "insert" /\ pc'[i] = "returned"
                /\ call'[i].assessment_id = r.id
                /\ call'[i].assessment = r.assessment
       /\ \A d \in DisasterIds :
             (\E x \in disasters' : x.id = d)
             => Cardinality(RowsFor(impact_assessments', d))
                = Cardinality({i \in Invocations :
                                 pc'[i] = "returned" /\ call'[i].did = d})
      ]_vars

C6_Witness ==
    /\ \A i \in Invocations : pc[i] = "returned" /\ call[i].did = 1
    /\ Cardinality(RowsFor(impact_assessments, 1)) = 2

\* C7: every returned assessment is computed from one version of the
\* disasters row: population, infrastructure, zones and loss all read the
\* same version, even when the row is updated during the invocation.
C7_SingleSnapshot ==
    \A i \in Invocations :
        (pc[i] = "returned" /\ call[i].loss.caught = NoError) =>
            /\ call[i].population.seen = call[i].zones.seen
            /\ call[i].infrastructure.seen = call[i].zones.seen
            /\ call[i].loss.seen = call[i].zones.seen

\* C8: an error raised by a query inside an engine operation reaches that
\* operation's caller as the same error, and no operation issues its query
\* more than once.
C8_ErrorsSurfaceUnmodified ==
    \A i \in Invocations :
        /\ \A q \in QueryNames : call[i].queries[q] <= 1
        /\ call[i].raised["population"] # NoError => call[i].population.st = "err"
        /\ call[i].raised["infrastructure"] # NoError
              => call[i].infrastructure.st = "err"
        /\ call[i].raised["zones"] # NoError => call[i].zones.st = "err"
        /\ call[i].raised["lookup"] # NoError => call[i].loss.st # "ok"
        /\ (\E q \in QueryNames : call[i].raised[q] # NoError)
              => /\ pc[i] = "threw"
                 /\ call[i].error \in {call[i].raised[q] : q \in QueryNames}

C9_Affected(cb) ==
    \E d \in disasters : d.id = 1 /\ \E pt \in cb.geometry : pt \in d.geometry

C9_Stored(id, col) ==
    IF \E cb \in census_blocks : cb.id = id /\ C9_Affected(cb) /\ ~cb[col].isNull
    THEN (CHOOSE cb \in census_blocks : cb.id = id)[col].c
    ELSE 0

C9_Sum(col) ==
    C9_Stored(1, col) + C9_Stored(2, col) + C9_Stored(3, col) + C9_Stored(4, col)

\* the aggregate v is the sum n: its decimal string, or NULL when no
\* affected block stores a value
C9_IsSum(v, col) ==
    \/ v.t = "str" /\ DigitsValue(v.s) = C9_Sum(col)
    \/ /\ v.t = "null"
       /\ ~ \E cb \in census_blocks : C9_Affected(cb) /\ ~cb[col].isNull

\* C9: population aggregation is binary, not area-weighted: each total is the
\* sum of the full stored values of exactly the blocks that share at least one
\* point with the disaster geometry, and the block count is their number; a
\* block of population 12,000 touching in one point yields 12,000.
C9_BinaryIntersection ==
    popOut.st = "ok" =>
        /\ C9_IsSum(popOut.row.total_population, "population")
        /\ C9_IsSum(popOut.row.total_households, "households")
        /\ C9_IsSum(popOut.row.elderly_population, "elderly_population")
        /\ C9_IsSum(popOut.row.children_population, "children_population")
        /\ C9_IsSum(popOut.row.disabled_population, "disabled_population")
        /\ popOut.row.affected_census_blocks.t = "str"
        /\ DigitsValue(popOut.row.affected_census_blocks.s)
           = Cardinality({cb \in census_blocks : C9_Affected(cb)})
        /\ popOut.section.total = C9_Sum("population")
        /\ popOut.section.households = C9_Sum("households")
        /\ popOut.section.vulnerable.elderly = C9_Sum("elderly_population")
        /\ popOut.section.vulnerable.children = C9_Sum("children_population")
        /\ popOut.section.vulnerable.disabled = C9_Sum("disabled_population")
        /\ popOut.section.affected_census_blocks
           = Cardinality({cb \in census_blocks : C9_Affected(cb)})

\* The block of 12,000 people on 10..20 and a disaster on 20..25 share the
\* single point 20.
C9_Witness ==
    /\ popOut.st = "ok"
    /\ \E cb \in census_blocks, d \in disasters :
          /\ cb.population = SqlInt(12000)
          /\ cb.geometry \cap d.geometry = {20}
          /\ census_blocks = {cb}
    /\ popOut.row.total_population = StrV(<<1, 2, 0, 0, 0>>)
    /\ popOut.section.total = 12000

\* C10: when no census block intersects the disaster geometry the aggregate
\* is a normal result whose every count is the number zero, both as
\* calculateAffectedPopulation returns it and as the population section of
\* the summary.
C10_EmptyAggregateIsZero ==
    (popOut.st = "ok" /\ ~ \E cb \in census_blocks : C9_Affected(cb)) =>
        /\ popOut.row.total_population = NumV(0)
        /\ popOut.row.total_households = NumV(0)
        /\ popOut.row.elderly_population = NumV(0)
        /\ popOut.row.children_population = NumV(0)
        /\ popOut.row.disabled_population = NumV(0)
        /\ popOut.row.affected_census_blocks = NumV(0)
        /\ popOut.section.total = 0
        /\ popOut.section.households = 0
        /\ popOut.section.vulnerable.elderly = 0
        /\ popOut.section.vulnerable.children = 0
        /\ popOut.section.vulnerable.disabled = 0
        /\ popOut.section.affected_census_blocks = 0

-----------------------------------------------------------------------------
(* Proximity search (SpecNear).                                            *)

NearestAnswered == opOut.st = "ok" /\ opOut.op = "nearest"

FracLess(a, b) == a.num * b.den < b.num * a.den

\* C11: findNearestInfrastructure returns its rows in ascending order of the
\* distance_km it reports, rows at the same distance in ascending order of
\* id, and no eligible site it left out is strictly closer, by reported
\* distance, than a site it returned.
C11_NearestByReportedDistance ==
    NearestAnswered =>
        LET rows     == opOut.rows
            returned == {rows[j].id : j \in 1..Len(rows)}
            eligible == {s \in infrastructure :
                            /\ opOut.type.given
                            /\ s.type = opOut.type.v
                            /\ s.operational_status = TRUE}
        IN  /\ \A j \in 1..(Len(rows) - 1) :
                  \/ FracLess(rows[j].distance_km, rows[j + 1].distance_km)
                  \/ /\ rows[j].distance_km = rows[j + 1].distance_km
                     /\ rows[j].id < rows[j + 1].id
            /\ \A s \in eligible : s.id \notin returned =>
                  \A j \in 1..Len(rows) :
                     ~FracLess(GeogDistance2(s.location, opIn.point),
                               rows[j].distance_km)

\* C12: whatever operators have changed in the infrastructure table, every
\* site findNearestInfrastructure returns is operational and of the
\* requested type, and it returns min(limit, number of such sites) rows.
C12_OnlyOperationalOfType ==
    NearestAnswered =>
        LET rows == opOut.rows
            such == {s \in infrastructure :
                        /\ opOut.type.given
                        /\ s.type = opOut.type.v
                        /\ s.operational_status = TRUE}
        IN  /\ \A j \in 1..Len(rows) :
                  /\ rows[j].operational_status = TRUE
                  /\ rows[j].type = opOut.type.v
                  /\ \E s \in such : s.id = rows[j].id /\ s.location = rows[j].location
            /\ \A j, k \in 1..Len(rows) : j # k => rows[j].id # rows[k].id
            /\ Len(rows) = Min(opOut.limit, Cardinality(such))

\* A search answered after operator changes, with a closed hospital strictly
\* closer to the query point than the hospital returned first.
C12_Witness ==
    /\ NearestAnswered
    /\ infrastructure # GridSites
    /\ opOut.type = TypeArg("hospital")
    /\ Len(opOut.rows) >= 1
    /\ \E s \in infrastructure :
          /\ s.type = "hospital"
          /\ s.operational_status = FALSE
          /\ FracLess(GeogDistance2(s.location, opIn.point),
                      opOut.rows[1].distance_km)

\* C13: a nearest request without a category, or with one that is no
\* infrastructure category, fails with an invalid-argument error (status 400
\* at the endpoint) and returns no sites, whoever the caller is.
C13_CategoryRequired ==
    ( /\ opOut.op = "nearest"
      /\ opOut.error # DbError("nearest")
      /\ (~opOut.type.given \/ opOut.type.v \notin InfrastructureTypes) )
    => /\ opOut.st = "err"
       /\ opOut.rows = <<>>
       /\ opOut.caller = "http" => opOut.status = 400

WithinRadiusAnswered == opOut.st = "ok" /\ opOut.op = "withinRadius"

\* C14: findAffectedInfrastructure(disasterId, bufferKm) returns exactly the
\* sites, operational or not, within bufferKm kilometres of the disaster
\* geometry (not of its centroid), each with its distance to the disaster
\* centroid, in ascending order of that distance.
C14_WithinRadiusOfGeometry ==
    WithinRadiusAnswered =>
        \A d \in DisasterRows(1) :
            LET rows   == opOut.rows
                reach  == Sq(opOut.radius * TenthsPerKm)
                within == {s \in infrastructure : \E q \in d.geometry :
                              Sq(s.location.x - q.x) + Sq(s.location.y - q.y) <= reach}
            IN  /\ {rows[j].id : j \in 1..Len(rows)} = {s.id : s \in within}
                /\ Len(rows) = Cardinality(within)
                /\ \A j \in 1..Len(rows) : \E s \in within :
                      /\ s.id = rows[j].id
                      /\ s.operational_status = rows[j].operational_status
                      /\ rows[j].distance_km =
                            CentroidDistance2(s.location, d.centroid)
                /\ \A j \in 1..(Len(rows) - 1) :
                      FracLeq(rows[j].distance_km, rows[j + 1].distance_km)

\* The scenario: radius 10 km, the hospital 2.3 km and the shelter 4.1 km
\* from the centroid both appear, the hospital first, and a closed site
\* appears too.
C14_Witness ==
    /\ WithinRadiusAnswered
    /\ opOut.radius = 10
    /\ \E j, k \in 1..Len(opOut.rows) :
          /\ j < k
          /\ opOut.rows[j].id = 1 /\ opOut.rows[j].type = "hospital"
          /\ opOut.rows[j].distance_km = Frac(23 * 23, 1)
          /\ opOut.rows[k].id = 2 /\ opOut.rows[k].type = "emergency_shelter"
          /\ opOut.rows[k].distance_km = Frac(41 * 41, 1)
    /\ \E j \in 1..Len(opOut.rows) : opOut.rows[j].operational_status = FALSE

\* C15: for a point disaster at p, a category c and a radius r with a site
\* of category c within r of p, findNearestInfrastructure(p, c, 1) returns
\* the site that comes first among the rows of category c that
\* findAffectedInfrastructure(disaster, r) returns, whatever the operational
\* statuses of the sites.
C15_NearestMatchesWithinRadius ==
    ( /\ NearestAnswered
      /\ opOut.limit = 1
      /\ opOut.type.given
      /\ disasters = {GridDisaster(1, {opIn.point})} )
    => \A r \in AffectedRadii :
          LET c      == opOut.type.v
              OfC(row) == row.type = c
              firsts == {SelectSeq(o, OfC) :
                            o \in GridAffectedOrders(infrastructure, DisasterRows(1), r)}
          IN  (\E f \in firsts : Len(f) >= 1)
              => /\ Len(opOut.rows) = 1
                 /\ \E f \in firsts : f[1].id = opOut.rows[1].id

-----------------------------------------------------------------------------
(* Vulnerability score (SpecScore).                                        *)

ScoreAnswered == opOut.st = "ok" /\ opOut.op = "score"

\* A missing count is 0 and a missing population is 1.
C16_Count(v) == IF v.k = "num" THEN v.n ELSE 0
C16_Population(v) == IF v.k = "num" THEN v.n ELSE 1

\* 0.3 E + 0.2 C + 0.3 D + 0.2 L as a fraction, E..L being percentages of
\* the population.
C16_Sum(dm) ==
    Frac(30 * C16_Count(dm.elderly_population)
           + 20 * C16_Count(dm.children_population)
           + 30 * C16_Count(dm.disabled_population)
           + 20 * C16_Count(dm.low_income_population),
         C16_Population(dm.population))

C16_Rounded(dm) == Min(100, MathRound(C16_Sum(dm).num, C16_Sum(dm).den))

C16_Halfway(dm) == 2 * (C16_Sum(dm).num % C16_Sum(dm).den) = C16_Sum(dm).den

\* C16: calculateVulnerabilityScore returns min(100, round(0.3 E + 0.2 C +
\* 0.3 D + 0.2 L)), E, C, D, L being the four counts as percentages of the
\* population, a missing count taken as 0 and a missing population as 1.
C16_ScoreIsRoundedSum ==
    (ScoreAnswered /\ C16_Population(opIn.demographics.population) > 0)
    => opOut.score = NumV(C16_Rounded(opIn.demographics))

\* C16, amended: the same, except that when the weighted sum is exactly
\* halfway between two integers the result is either of the two.
C16_ScoreIsRoundedSumUpToHalves ==
    (ScoreAnswered /\ C16_Population(opIn.demographics.population) > 0)
    => \/ opOut.score = NumV(C16_Rounded(opIn.demographics))
       \/ /\ C16_Halfway(opIn.demographics)
          /\ opOut.score = NumV(C16_Rounded(opIn.demographics) - 1)

\* A score clamped to 100, computed with the population and a count missing.
C16_Witness ==
    /\ ScoreAnswered
    /\ opIn.demographics.population = Undefined
    /\ \E f \in CountFields : opIn.demographics[f] = Undefined
    /\ C16_Sum(opIn.demographics).num > 100 * C16_Sum(opIn.demographics).den
    /\ opOut.score = NumV(100)

\* population >= 0 and every count between 0 and the population
C17_DataModel(dm) ==
    /\ dm.population.k = "num"
    /\ dm.population.n >= 0
    /\ \A f \in CountFields :
          dm[f].k = "num" /\ dm[f].n >= 0 /\ dm[f].n <= dm.population.n

\* C17: for every census block satisfying the data-model invariants,
\* population 0 included, the score is a number in [0, 100], and raising one
\* count with the others and the population fixed never lowers it.
C17_ScoreInRangeAndMonotone ==
    ScoreAnswered =>
        /\ C17_DataModel(opIn.demographics) =>
              /\ opOut.score.t = "num"
              /\ opOut.score.n >= 0
              /\ opOut.score.n <= 100
        /\ (C17_DataModel(opIn.demographics) /\ C17_DataModel(opIn.raised)) =>
              /\ opOut.raised_score.t = "num"
              /\ opOut.raised_score.n >= opOut.score.n

-----------------------------------------------------------------------------
(* Evacuation zones (SpecZones).                                           *)

ZonesAnswered == opOut.st = "ok" /\ opOut.op = "zones" /\ opOut.row.found

\* C18: the three zones createEvacuationZones produces are nested, 1 km in
\* 5 km in 10 km, each contains the disaster geometry, and the reported
\* areas satisfy area_1km <= area_5km <= area_10km.
C18_ZonesNested ==
    ZonesAnswered =>
        \A d \in DisasterRows(1) :
            LET z == opOut.row
            IN  /\ d.geometry \subseteq z.zone_1km
                /\ z.zone_1km \subseteq z.zone_5km
                /\ z.zone_5km \subseteq z.zone_10km
                /\ z.area_1km_sq_km <= z.area_5km_sq_km
                /\ z.area_5km_sq_km <= z.area_10km_sq_km
                /\ z.area_1km_sq_km = Cardinality(z.zone_1km)
                /\ z.area_10km_sq_km = Cardinality(z.zone_10km)

\* Zones of a geometry of several parts, each zone strictly larger than the
\* one inside it, the parts' 10 km buffers merged and their 1 km ones not.
C18_Witness ==
    /\ ZonesAnswered
    /\ \E d \in DisasterRows(1) :
          /\ Cardinality(d.geometry) >= 2
          /\ d.geometry # opOut.row.zone_1km
    /\ opOut.row.area_1km_sq_km < opOut.row.area_5km_sq_km
    /\ opOut.row.area_5km_sq_km < opOut.row.area_10km_sq_km
    /\ \E a, b \in opOut.row.zone_1km :
          a < b /\ \E m \in a..b : m \notin opOut.row.zone_1km /\ m \in opOut.row.zone_10km

-----------------------------------------------------------------------------
(* Nested geometries (SpecNested).                                         *)

AggregateColumns ==
    {"total_population", "total_households", "elderly_population",
     "children_population", "disabled_population", "affected_census_blocks"}

\* The number an aggregate stands for: its digits, NULL as 0.
C19_Number(v) == OrZero(ParseInt(v))

\* C19: for disaster geometries G1 contained in G2 and the same
\* census_blocks rows, any the schema admits, every aggregate
\* calculateAffectedPopulation returns for G2 is at least the one it returns
\* for G1.
C19_MonotoneInGeometry ==
    (opOut.st = "ok" /\ opOut.op = "nested") =>
        \A col \in AggregateColumns :
            C19_Number(opOut.outer[col]) >= C19_Number(opOut.inner[col])

-----------------------------------------------------------------------------
(* Hotspot clustering (SpecHot).                                           *)

C20_Participating ==
    {d \in disasters : d.type = opOut.type /\ d.start_time + 5 > opIn.now}

RECURSIVE C20_Total(_)
C20_Total(rows) ==
    IF rows = <<>> THEN 0
    ELSE ParseInt(Head(rows).disaster_count).n + C20_Total(Tail(rows))

\* C20: for every k >= 1 and every set of n participating centroids,
\* calculateDisasterHotspots succeeds and returns at most min(k, n) clusters,
\* each with disaster_count >= 1, the counts summing to n, ordered by
\* disaster_count descending; with k = 5 and 3 distinct points it returns
\* exactly 3 clusters.
C20_HotspotsDegenerate ==
    ( /\ opOut.op = "hotspots"
      /\ opOut.error # DbError("hotspots")
      /\ opOut.clusters >= 1 )
    => LET rows == opOut.rows
           n    == Cardinality(C20_Participating)
       IN  /\ opOut.st = "ok"
           /\ Len(rows) <= Min(opOut.clusters, n)
           /\ \A j \in 1..Len(rows) : ParseInt(rows[j].disaster_count).n >= 1
           /\ C20_Total(rows) = n
           /\ \A j \in 1..(Len(rows) - 1) :
                 ParseInt(rows[j].disaster_count).n
                    >= ParseInt(rows[j + 1].disaster_count).n
           /\ (opOut.clusters = 5 /\ n = 3) => Len(rows) = 3

HotspotsAnswered == opOut.st = "ok" /\ opOut.op = "hotspots"

\* C21: the disasters counted in the clusters calculateDisasterHotspots
\* returns are exactly those of the requested type whose start_time is
\* within the 5 years before the call.
C21_CountedWithinLookback ==
    HotspotsAnswered =>
        /\ opOut.clustered =
              {d.id : d \in {x \in disasters :
                                /\ x.type = opOut.type
                                /\ x.start_time > opIn.now - 5
                                /\ x.start_time <= opIn.now}}
        /\ C20_Total(opOut.rows) = Cardinality(opOut.clustered)

\* C21, amended: ... are exactly those of the requested type whose
\* start_time is later than 5 years before the call, a start_time after the
\* call included.
C21_CountedAfterCutoff ==
    HotspotsAnswered =>
        /\ opOut.clustered =
              {d.id : d \in {x \in disasters :
                                /\ x.type = opOut.type
                                /\ x.start_time > opIn.now - 5}}
        /\ C20_Total(opOut.rows) = Cardinality(opOut.clustered)

\* Clusters counted from a table that also holds a disaster of another type
\* and one of the requested type that started more than 5 years ago.
C21_Witness ==
    /\ HotspotsAnswered
    /\ Len(opOut.rows) >= 2
    /\ \E d \in disasters : d.type # opOut.type
    /\ \E d \in disasters : d.type = opOut.type /\ d.start_time < opIn.now - 5
    /\ \E d \in disasters : d.id \in opOut.clustered

\* C22: after any sequence of inserts and updates on disasters, every row's
\* centroid is the centroid of its current geometry, whatever centroid the
\* writer supplied.
C22_CentroidOfCurrentGeometry ==
    \A d \in disasters : d.centroid = ST_Centroid(d.geometry)

\* An UPDATE that supplied a centroid other than the geometry's has run, after
\* an earlier statement, on a row that is still there.
C22_Witness ==
    /\ opOut.op = "update_disaster"
    /\ writes >= 2
    /\ opOut.supplied # OmittedCentroid
    /\ \E d \in DisasterRows(opOut.id) :
          /\ opOut.supplied # ST_Centroid(d.geometry)
          /\ d.centroid = ST_Centroid(d.geometry)

\* C23 as stated: every impact_assessments row and every alerts row
\* references a disaster that still exists.
C23_EveryRowReferencesADisaster ==
    /\ \A r \in impact_assessments : DisasterRows(r.assessment.disaster_id) # {}
    /\ \A a \in alerts : DisasterRows(a.disaster_id) # {}

\* C23: after any sequence of disaster insertions, assessment and alert
\* insertions and disaster deletions, every impact_assessments row and every
\* alerts row whose disaster_id is not NULL references a disaster that still
\* exists, and a deletion succeeds however many rows reference the disaster.
C23_NoDanglingReference ==
    /\ \A r \in impact_assessments :
          r.assessment.disaster_id # NoDisasterId
             => DisasterRows(r.assessment.disaster_id) # {}
    /\ \A a \in alerts :
          a.disaster_id # NoDisasterId => DisasterRows(a.disaster_id) # {}
    /\ opOut.op = "delete_disaster"
          => /\ opOut.st = "ok"
             /\ DisasterRows(opOut.id) = {}

\* A deletion has removed at least two referencing rows in one step.
C23_Witness ==
    /\ opOut.op = "delete_disaster"
    /\ opOut.removed >= 2

\* ImpactController.getEvacuationZones (part_001 29-43): res.json answers 200
\* with whatever createEvacuationZones returned; an error goes to the error
\* handler.
GetEvacuationZonesStatus == IF opOut.st = "ok" THEN 200 ELSE ErrorStatus(opOut.error)

\* C24: an HTTP operation that takes a disaster identifier answers 404, with
\* no success payload, when the identifier resolves to no disaster; here the
\* evacuation zones endpoint.
C24_UnresolvedAnswers404 ==
    (opOut.op = "zones" /\ DisasterRows(1) = {})
        => GetEvacuationZonesStatus = 404

\* The sockets that have connected and have since neither closed nor errored.
LiveConnections ==
    {w \in Sockets : /\ "connection" \in wss.sock[w].events
                     /\ "close" \notin wss.sock[w].events
                     /\ "error" \notin wss.sock[w].events}

\* C25: the clients set is exactly the set of sockets that connected and
\* have neither closed nor errored since, getClientCount is its size, and a
\* broadcast sends nothing to a socket outside the set or not OPEN.
C25_RegistryIsLiveConnections ==
    /\ wss.clients = LiveConnections
    /\ getClientCount = Cardinality(LiveConnections)
    /\ \A w \in Sockets :
          wss.last.sent[w] > 0
             => w \in LiveConnections /\ wss.sock[w].readyState = "OPEN"

\* A broadcast has reached a live socket and not one that errored and still
\* reports OPEN.
C25_Witness ==
    /\ wss.last.kind = "alert"
    /\ \E a, c \in Sockets :
          /\ wss.last.sent[a] = 1
          /\ "error" \in wss.sock[c].events
          /\ wss.sock[c].readyState = "OPEN"
          /\ wss.last.sent[c] = 0
    /\ getClientCount = 1

Issued(r, statement) ==
    \E k \in 1..Len(pool.run[r].issued) : pool.run[r].issued[k] = statement

\* C27: in a run of the transaction helper that obtained a client, COMMIT
\* is issued exactly when BEGIN and the callback succeeded, and then the
\* callback's result is returned; otherwise ROLLBACK is issued, COMMIT is
\* not, and the helper rejects with the error of the step that failed; the
\* client is released exactly once, after the last statement.
C27_CommitOrRollback ==
    \A r \in Runs :
        (pool.run[r].pc = "done" /\ pool.run[r].failed # "connect") =>
            LET t == pool.run[r]
                bothSucceeded == t.failed \notin {"begin", "callback"}
            IN  /\ Issued(r, "COMMIT") <=> bothSucceeded
                /\ bothSucceeded =>
                      t.outcome = "resolved" /\ t.value = t.result
                /\ ~bothSucceeded =>
                      /\ Issued(r, "ROLLBACK")
                      /\ t.outcome = "rejected"
                      /\ t.error = DbError(t.failed)
                /\ t.released = 1
                /\ t.releasedAfter = Len(t.issued)

SummaryAnswered == opOut.op = "summary" /\ opOut.st = "ok"

\* The sites within 10 km of the geometry of disaster 1.
C28_Within ==
    {s \in infrastructure :
        \E d \in DisasterRows(1) :
           \E q \in d.geometry :
              Sq(s.location.x - q.x) + Sq(s.location.y - q.y) <= Sq(10 * TenthsPerKm)}

RECURSIVE C28_Sum(_, _)
C28_Sum(f, keys) ==
    IF keys = {} THEN 0
    ELSE LET k == CHOOSE x \in keys : TRUE IN f[k] + C28_Sum(f, keys \ {k})

\* C28: in a summary, infrastructure.total is the number of sites within
\* 10 km of the disaster geometry, by_type has one key per type that occurs,
\* its values are the numbers of sites of each type and sum to total, and
\* details is the first min(10, total) entries of the distance-ordered list.
C28_InfrastructureSection ==
    SummaryAnswered =>
        LET sec  == opOut.infrastructure
            rows == opOut.rows
            n    == Cardinality(C28_Within)
        IN  /\ sec.total = n
            /\ {rows[k].id : k \in DOMAIN rows} = {s.id : s \in C28_Within}
            /\ \A k \in 1..(Len(rows) - 1) :
                  FracLeq(rows[k].distance_km, rows[k + 1].distance_km)
            /\ DOMAIN sec.by_type = {s.type : s \in C28_Within}
            /\ \A t \in DOMAIN sec.by_type :
                  sec.by_type[t] = Cardinality({s \in C28_Within : s.type = t})
            /\ C28_Sum(sec.by_type, DOMAIN sec.by_type) = sec.total
            /\ Len(sec.details) = (IF n < 10 THEN n ELSE 10)
            /\ \A k \in 1..Len(sec.details) : sec.details[k] = rows[k]

\* A summary over more than ten sites of several types within 10 km, with a
\* site of the table farther away left out.
C28_Witness ==
    /\ SummaryAnswered
    /\ opOut.infrastructure.total > 10
    /\ Len(opOut.infrastructure.details) = 10
    /\ Cardinality(DOMAIN opOut.infrastructure.by_type) >= 3
    /\ Cardinality(infrastructure) > opOut.infrastructure.total

\* The assessment a follows, field by field, from the summary s.
C29_Derived(a, s) ==
    /\ a.affected_population = s.population.total
    /\ a.affected_households = s.population.households
    /\ a.vulnerable_population = s.population.vulnerable.elderly
                                 + s.population.vulnerable.children
                                 + s.population.vulnerable.disabled
    /\ a.affected_hospitals =
          (IF "hospital" \in DOMAIN s.infrastructure.by_type
             THEN s.infrastructure.by_type["hospital"] ELSE 0)
    /\ a.affected_shelters =
          (IF "emergency_shelter" \in DOMAIN s.infrastructure.by_type
             THEN s.infrastructure.by_type["emergency_shelter"] ELSE 0)
    /\ a.affected_critical_infrastructure = s.infrastructure.total
    /\ a.affected_area_sq_km = s.evacuation_zones.area_10km_sq_km

C30_LatestRequestShown ==
    LET reqs      == mapView.requests
        succeeded == {r \in DOMAIN reqs : reqs[r].status = "ok"}
        latest    == IF succeeded = {} THEN 0
                     ELSE CHOOSE r \in succeeded : \A o \in succeeded : o <= r
    IN  (\A r \in DOMAIN reqs : reqs[r].status # "inflight")
            => mapView.disasters = latest /\ mapView.markers = latest

====
